---------------------------- MODULE Spec2Model ----------------------------
(***************************************************************************)
(* agent-browser CLI: the daemon supervisor (ensure_daemon), the request   *)
(* dispatcher (send_command) and the callers that drive them (main and     *)
(* AgentBrowser::run), over a file system and a worker process that may    *)
(* change between any two steps of an invocation.                          *)
(***************************************************************************)
EXTENDS Integers, Sequences, FiniteSets, TLC

(***************************************************************************)
(* Strings.  Error texts and paths are kept as the strings the code builds *)
(* so that the code's substring tests and length tests are computed, not   *)
(* assumed.                                                                *)
(***************************************************************************)
Contains(h, n) ==
    \E i \in 1..(Len(h) - Len(n) + 1) : SubSeq(h, i, i + Len(n) - 1) = n

StartsWith(h, n) == Len(h) >= Len(n) /\ SubSeq(h, 1, Len(n)) = n

EndsWith(h, n) == Len(h) >= Len(n) /\ SubSeq(h, Len(h) - Len(n) + 1, Len(h)) = n

\* str::trim: white space is removed at both ends.
RECURSIVE Trim(_)
Trim(str) ==
    LET space == {" ", "\n", "\t", "\r"}
    IN  IF str = "" THEN ""
        ELSE IF SubSeq(str, 1, 1) \in space THEN Trim(SubSeq(str, 2, Len(str)))
        ELSE IF SubSeq(str, Len(str), Len(str)) \in space
        THEN Trim(SubSeq(str, 1, Len(str) - 1))
        ELSE str

\* std::io::Error's Display for an OS error: "<strerror> (os error <code>)".
OsError(text, code) == text \o " (os error " \o ToString(code) \o ")"

\* PathBuf::join: an absolute component replaces the base; a separator is
\* added only when the base does not already end with one.
PathJoin(base, comp) ==
    IF StartsWith(comp, "/") THEN comp
    ELSE IF base = "" THEN comp
    ELSE IF EndsWith(base, "/") THEN base \o comp
    ELSE base \o "/" \o comp

(***************************************************************************)
(* Processes.  Procs are CLI invocations; worker "w0" is a worker that may *)
(* exist before the invocations start, WorkerOf(p) is the one invocation p *)
(* spawns.                                                                 *)
(***************************************************************************)
Procs == {1, 2}
Workers == {"w0", "w1", "w2"}
WorkerOf(p) == IF p = 1 THEN "w1" ELSE "w2"

\* The CLI invocations that run under Spec: one.
SoloProcs == {1}

Alive == {"starting", "listening", "closing"}

\* Socket directories the invocation may resolve (get_socket_dir's result)
\* and session names: the long directory puts the socket path at 103, 104
\* and 105 bytes.
ShortDir == "/tmp/ab"
LongDir == "/home/automation/.local/share/agent-browser/runtime/sessions/workspace-alpha/run/sockets"
LongDirSlash == LongDir \o "/"

SessionInputs ==
    { <<ShortDir, "default">>,
      <<LongDir, "agent-009">>,
      <<LongDir, "agent-0010">>,
      <<LongDir, "agent-00011">>,
      <<LongDirSlash, "agent-0010">> }

VARIABLES
    \* the session's artifacts and its workers (shared by all processes)
    pidFile,      \* "none" | "garbage" | the worker whose pid it holds: <session>.pid
    sockFile,     \* "none" | the worker that bound <session>.sock
    wstate,       \* worker -> "none" | "starting" | "listening" | "closing" | "dead"
                  \*           | "failed" (it exited because its bind failed)
    dirExists,    \* the socket directory exists
    \* inputs, fixed for a run
    sockDir,      \* get_socket_dir()
    session,      \* flags.session / config.session
    caller,       \* process -> "main" | "lib" | "off"
    cmdKind,      \* process -> what the command line is
    flags,        \* process -> the parsed global options
    homeEnv,      \* process -> AGENT_BROWSER_HOME, or "unset"
    daemonFiles,  \* the candidate daemon.js paths that exist
    stdin,        \* process -> its standard input: a terminal or not, and its next line
    \* control state of each invocation
    pc,
    polls,        \* readiness probes that failed so far
    site,         \* the call site of the running send_command
    tries,        \* attempts send_command has made in the running call
    lastError,    \* send_command's last_error
    slept,        \* milliseconds the running send_command call has slept
    sendRet,      \* what the last send_command call returned
    edRet,        \* what ensure_daemon returned
    \* what each invocation has done (history)
    probe1,
    probe2,
    pollOk,       \* readiness probes that succeeded
    waited,       \* milliseconds ensure_daemon has slept
    log,          \* effects on the session's artifacts and processes, in order
    calls,        \* completed send_command calls, in order
    lastTry,      \* the outcome of the latest send_command_once
    wire,         \* what the latest send_command_once did on its connection
    warned,       \* the "ignored: daemon already running" warning was printed
    exitCode,     \* -1 while running; the exit status (lib: 0 for Ok, 1 for Err)
    \* one call of a function that depends on its arguments alone
    call,         \* the function called and its arguments
    result        \* what it returned

envVars == <<pidFile, sockFile, wstate, dirExists>>
inVars == <<sockDir, session, caller, cmdKind, flags, daemonFiles, stdin>>
edVars == <<polls, edRet, probe1, probe2, pollOk, waited>>
sendVars == <<site, tries, lastError, slept, sendRet, calls, lastTry, wire>>
procVars == <<exitCode, homeEnv, warned>>
fnVars == <<call, result>>
vars == <<envVars, inVars, edVars, sendVars, pc, log, procVars, fnVars>>


(***************************************************************************)
(* The session's paths.                                                    *)
(***************************************************************************)
\* get_socket_path: get_socket_dir().join(format!("{}.sock", session))
SocketPath == PathJoin(sockDir, session \o ".sock")

\* The Unix limit ensure_daemon enforces on the socket path.
MaxSocketPathLen == 103

\* Fault: the length test is inclusive, so a path of exactly the limit is refused.
PathTooLong_Inclusive == Len(SocketPath) >= MaxSocketPathLen

\* ensure_daemon's pre-flight test of the socket path's length.
PathTooLong == Len(SocketPath) > MaxSocketPathLen

(***************************************************************************)
(* Errors.  An error carries the text the code sees and, for the claims,   *)
(* the condition that produced it (kind).                                  *)
(***************************************************************************)
Err(kind, text) == [kind |-> kind, text |-> text]

ENOENT == Err("ENOENT", OsError("No such file or directory", 2))
ECONNREFUSED == Err("ECONNREFUSED", OsError("Connection refused", 111))
EACCES == Err("EACCES", OsError("Permission denied", 13))
ENOTDIR == Err("ENOTDIR", OsError("Not a directory", 20))
EAGAIN == Err("EAGAIN", OsError("Resource temporarily unavailable", 11))
ECONNRESET == Err("ECONNRESET", OsError("Connection reset by peer", 104))
EPIPE == Err("EPIPE", OsError("Broken pipe", 32))

Prefixed(prefix, e) == Err(e.kind, prefix \o e.text)

(***************************************************************************)
(* The endpoint.                                                           *)
(***************************************************************************)
\* A worker is accepting connections on the session's socket file.
Accepting == sockFile /= "none" /\ wstate[sockFile] = "listening"

\* Failures of connect(2) that do not depend on the worker: the directory
\* cannot be searched, or a component of the path is not a directory.
ConnectFaults == {EACCES, ENOTDIR}

\* UnixStream::connect(socket_path): the possible results, "ok" or an error.
ConnectOutcomes ==
    (IF sockFile = "none" THEN {ENOENT}
     ELSE IF Accepting THEN {Err("ok", "")}
     ELSE {ECONNREFUSED})
    \cup ConnectFaults

\* kill(pid, 0) == 0 for the pid the marker holds.
PidAlive == pidFile \in Workers /\ wstate[pidFile] \in Alive

\* is_daemon_running (unix): the marker exists, parses, and its process lives.
IsDaemonRunning == pidFile \notin {"none", "garbage"} /\ PidAlive

\* Fault: a refused connection (the socket file is there) is taken for ready.
DaemonReady_FileThere(c) == c.kind \in {"ok", "ECONNREFUSED"}

\* daemon_ready: the connection attempt succeeded.
DaemonReady(c) == c.kind = "ok"

(***************************************************************************)
(* ensure_daemon                                                           *)
(***************************************************************************)
Ok(already) == [ok |-> TRUE, already_running |-> already, err |-> ""]
Fail(text) == [ok |-> FALSE, already_running |-> FALSE, err |-> text]
NoRet == [ok |-> FALSE, already_running |-> FALSE, err |-> "(not returned)"]

\* What a probe met, for the record: "positive" (the marker's process
\* lives, where the probe asks, and the connection succeeded), "stale" (a
\* marker is there and the endpoint accepts no connection), "negative"
\* (anything else).
ProbeRecord(running, connected) ==
    IF running /\ connected THEN "positive"
    ELSE IF pidFile /= "none" /\ ~Accepting THEN "stale"
    ELSE "negative"

\* The first probe's verdict: the marker says running AND the endpoint answers.
Probe1Positive(running, ready) == running /\ ready

\* Fault: the re-check's condition is inverted.
Probe2Positive_Inverted(ready) == ~ready

\* Fault: the re-check's result is not looked at; the first probe is trusted.
Probe2Positive_Trusting(ready) == TRUE

\* The re-check's verdict: the endpoint answers again after the delay.
Probe2Positive(ready) == ready

\* The number of readiness probes after a spawn, and the sleep after a
\* probe that failed.
MaxPolls == 50
PollDelayMs == 100

\* The sleep before the re-check.
RecheckDelayMs == 150

\* ensure_daemon returns r to its caller.
EnsureReturn(p, r) ==
    /\ edRet' = [edRet EXCEPT ![p] = r]
    /\ pc' = [pc EXCEPT ![p] = "ed_done"]

\* ensure_daemon's caller goes on: the call's locals and what the call saw
\* are gone.
EnsureLeave(p) ==
    /\ polls' = [polls EXCEPT ![p] = 0]
    /\ pollOk' = [pollOk EXCEPT ![p] = 0]
    /\ probe1' = [probe1 EXCEPT ![p] = "none"]
    /\ probe2' = [probe2 EXCEPT ![p] = "none"]
    /\ waited' = [waited EXCEPT ![p] = 0]
    /\ UNCHANGED edRet

\* if is_daemon_running(session) && daemon_ready(session)
EnsureProbe1(p) ==
    /\ pc[p] = "ed_probe1"
    /\ \E c \in (IF IsDaemonRunning THEN ConnectOutcomes ELSE {Err("skipped", "")}) :
         /\ probe1' = [probe1 EXCEPT ![p] =
                ProbeRecord(IsDaemonRunning, c.kind = "ok")]
         /\ pc' = [pc EXCEPT ![p] =
                IF Probe1Positive(IsDaemonRunning, DaemonReady(c))
                THEN "ed_probe2" ELSE "ed_rm_pid"]
    /\ UNCHANGED <<envVars, inVars, fnVars, sendVars, polls, edRet, probe2, pollOk, waited, log, procVars>>

\* thread::sleep(150 ms); if daemon_ready(session) { return already_running: true }
EnsureProbe2(p) ==
    /\ pc[p] = "ed_probe2"
    /\ waited' = [waited EXCEPT ![p] = @ + RecheckDelayMs]
    /\ \E c \in ConnectOutcomes :
         /\ probe2' = [probe2 EXCEPT ![p] = ProbeRecord(TRUE, c.kind = "ok")]
         /\ IF Probe2Positive(DaemonReady(c))
            THEN EnsureReturn(p, Ok(TRUE))
            ELSE /\ pc' = [pc EXCEPT ![p] = "ed_rm_pid"]
                 /\ UNCHANGED edRet
    /\ UNCHANGED <<envVars, inVars, fnVars, sendVars, polls, probe1, pollOk, log, procVars>>

\* fs::remove_file on a file that is there succeeds, or fails and leaves it
\* (a sticky directory, a read-only mount); on a missing file it fails.
RemoveOutcomes(file) == IF file = "none" THEN {"absent"} ELSE {"ok", "failed"}

\* Fault: the artifacts are removed only when a marker is there.
EnsureRmPid_IfMarker(p) ==
    /\ pc[p] = "ed_rm_pid"
    /\ IF pidFile = "none"
       THEN /\ pc' = [pc EXCEPT ![p] = "ed_mkdir"]
            /\ UNCHANGED <<pidFile, log>>
       ELSE /\ \E r \in {"ok", "failed"} :
                 pidFile' = IF r = "ok" THEN "none" ELSE pidFile
            /\ log' = [log EXCEPT ![p] = Append(@, "rm_pid")]
            /\ pc' = [pc EXCEPT ![p] = "ed_rm_sock"]
    /\ UNCHANGED <<sockFile, wstate, dirExists, inVars, fnVars, edVars, sendVars, procVars>>

\* cleanup_stale_files, first half: let _ = fs::remove_file(&pid_path)
EnsureRmPid(p) ==
    /\ pc[p] = "ed_rm_pid"
    /\ \E r \in RemoveOutcomes(pidFile) :
         /\ pidFile' = IF r = "ok" THEN "none" ELSE pidFile
         /\ log' = [log EXCEPT ![p] = Append(@, "rm_pid")]
    /\ pc' = [pc EXCEPT ![p] = "ed_rm_sock"]
    /\ UNCHANGED <<sockFile, wstate, dirExists, inVars, fnVars, edVars, sendVars, procVars>>

\* cleanup_stale_files, second half: let _ = fs::remove_file(&socket_path)
EnsureRmSock(p) ==
    /\ pc[p] = "ed_rm_sock"
    /\ \E r \in RemoveOutcomes(sockFile) :
         /\ sockFile' = IF r = "ok" THEN "none" ELSE sockFile
         /\ log' = [log EXCEPT ![p] = Append(@, "rm_sock")]
    /\ pc' = [pc EXCEPT ![p] = "ed_mkdir"]
    /\ UNCHANGED <<pidFile, wstate, dirExists, inVars, fnVars, edVars, sendVars, procVars>>

\* fs::create_dir_all(&socket_dir) when the directory is missing.
EnsureMkdir(p) ==
    /\ pc[p] = "ed_mkdir"
    /\ IF dirExists
       THEN /\ pc' = [pc EXCEPT ![p] = "ed_preflight"]
            /\ UNCHANGED <<dirExists, edRet, log>>
       ELSE \/ /\ dirExists' = TRUE
               /\ log' = [log EXCEPT ![p] = Append(@, "mkdir")]
               /\ pc' = [pc EXCEPT ![p] = "ed_preflight"]
               /\ UNCHANGED edRet
            \/ /\ EnsureReturn(p, Fail("Failed to create socket directory: " \o EACCES.text))
               /\ UNCHANGED <<dirExists, log>>
    /\ UNCHANGED <<pidFile, sockFile, wstate, inVars, fnVars, sendVars, polls, probe1, probe2,
                   pollOk, waited, procVars>>

\* The error of the socket path length check.
TooLongError ==
    "Session name '" \o session \o "' is too long. Socket path would be "
    \o ToString(Len(SocketPath)) \o " bytes (max 103).\n"
    \o "Use a shorter session name or set AGENT_BROWSER_SOCKET_DIR to a shorter path."

\* The error of the writability check.
NotWritableError ==
    "Socket directory '" \o sockDir \o "' is not writable: " \o EACCES.text

\* Fault: the write test runs before the length check.
EnsurePreflight_WriteFirst(p) ==
    /\ pc[p] = "ed_preflight"
    /\ \/ /\ EnsureReturn(p, Fail(NotWritableError))
          /\ UNCHANGED log
       \/ /\ log' = [log EXCEPT ![p] = Append(@, "write_test")]
          /\ IF PathTooLong
             THEN EnsureReturn(p, Fail(TooLongError))
             ELSE /\ pc' = [pc EXCEPT ![p] = "ed_locate"]
                  /\ UNCHANGED edRet
    /\ UNCHANGED <<envVars, inVars, fnVars, sendVars, polls, probe1, probe2, pollOk, waited, procVars>>

\* Pre-flight: the socket path's length, then a zero-byte .write_test file is
\* written and removed.
EnsurePreflight(p) ==
    /\ pc[p] = "ed_preflight"
    /\ IF PathTooLong
       THEN /\ EnsureReturn(p, Fail(TooLongError))
            /\ UNCHANGED log
       ELSE \/ /\ log' = [log EXCEPT ![p] = Append(@, "write_test")]
               /\ pc' = [pc EXCEPT ![p] = "ed_locate"]
               /\ UNCHANGED edRet
            \/ /\ EnsureReturn(p, Fail(NotWritableError))
               /\ UNCHANGED log
    /\ UNCHANGED <<envVars, inVars, fnVars, sendVars, polls, probe1, probe2, pollOk, waited, procVars>>

\* Fault: the home override is appended, so it is searched last.
DaemonPaths_HomeLast(home) ==
    <<"<exe_dir>/daemon.js", "<exe_dir>/../dist/daemon.js", "dist/daemon.js">>
    \o (IF home = "unset" THEN <<>>
        ELSE <<PathJoin(home, "dist/daemon.js"), PathJoin(home, "daemon.js")>>)

\* daemon_paths: the candidates in the order they are searched.
DaemonPaths(home) ==
    (IF home = "unset" THEN <<>>
     ELSE <<PathJoin(home, "dist/daemon.js"), PathJoin(home, "daemon.js")>>)
    \o <<"<exe_dir>/daemon.js", "<exe_dir>/../dist/daemon.js", "dist/daemon.js">>

\* daemon_paths.iter().find(|p| p.exists()): the index of the first
\* existing candidate, 0 when there is none.
FindDaemon(paths, existing) ==
    IF \E i \in 1..Len(paths) : paths[i] \in existing
    THEN CHOOSE i \in 1..Len(paths) :
            /\ paths[i] \in existing
            /\ \A j \in 1..(i - 1) : paths[j] \notin existing
    ELSE 0

NotFoundError ==
    "Daemon not found. Set AGENT_BROWSER_HOME environment variable or run from project directory."

\* The search for daemon.js with AGENT_BROWSER_HOME = home (or unset) among
\* the files existing: the path found, or the error.
LocateDaemon(home, existing) ==
    LET paths == DaemonPaths(home)
        i == FindDaemon(paths, existing)
    IN  IF i = 0
        THEN [found |-> FALSE, path |-> "", err |-> NotFoundError]
        ELSE [found |-> TRUE, path |-> paths[i], err |-> ""]

\* env::current_exe, then the search for daemon.js.
EnsureLocate(p) ==
    /\ pc[p] = "ed_locate"
    /\ \/ /\ EnsureReturn(p, Fail(ENOENT.text))       \* current_exe() failed
          /\ UNCHANGED log
       \/ LET d == LocateDaemon(homeEnv[p], daemonFiles)
          IN  IF ~d.found
              THEN /\ EnsureReturn(p, Fail(d.err))
                   /\ UNCHANGED log
              ELSE /\ log' = [log EXCEPT ![p] = Append(@, d.path)]
                   /\ pc' = [pc EXCEPT ![p] = "ed_spawn"]
                   /\ UNCHANGED edRet
    /\ UNCHANGED <<envVars, inVars, fnVars, sendVars, polls, probe1, probe2, pollOk, waited, procVars>>

\* Fault: the spawn waits while another invocation's worker is starting or
\* running, as it would behind a lock held across the spawn and the polling.
EnsureSpawn_Exclusive(p) ==
    /\ pc[p] = "ed_spawn"
    /\ \A q \in Procs \ {p} : wstate[WorkerOf(q)] \notin Alive
    /\ \/ /\ wstate' = [wstate EXCEPT ![WorkerOf(p)] = "starting"]
          /\ log' = [log EXCEPT ![p] = Append(@, "spawn")]
          /\ pc' = [pc EXCEPT ![p] = "ed_poll"]
          /\ UNCHANGED edRet
       \/ /\ EnsureReturn(p, Fail("Failed to start daemon: " \o ENOENT.text))
          /\ UNCHANGED <<wstate, log>>
    /\ UNCHANGED <<pidFile, sockFile, dirExists, inVars, fnVars, sendVars, polls, probe1, probe2,
                   pollOk, waited, procVars>>

\* Command::new("node").arg(daemon_path) ... .spawn()
EnsureSpawn(p) ==
    /\ pc[p] = "ed_spawn"
    /\ \/ /\ wstate' = [wstate EXCEPT ![WorkerOf(p)] = "starting"]
          /\ log' = [log EXCEPT ![p] = Append(@, "spawn")]
          /\ pc' = [pc EXCEPT ![p] = "ed_poll"]
          /\ UNCHANGED edRet
       \/ /\ EnsureReturn(p, Fail("Failed to start daemon: " \o ENOENT.text))
          /\ UNCHANGED <<wstate, log>>
    /\ UNCHANGED <<pidFile, sockFile, dirExists, inVars, fnVars, sendVars, polls, probe1, probe2,
                   pollOk, waited, procVars>>

\* The error after the last readiness probe failed.
StartTimeoutError ==
    "Daemon failed to start (socket: " \o PathJoin(sockDir, session \o ".sock") \o ")"

\* Fault: the loop's bound is off by one, a 51st probe is made.
PollsExhausted_Late(failed) == failed > MaxPolls

\* The loop's bound: the probe that has just failed was the last one.
PollsExhausted(failed) == failed >= MaxPolls

\* One turn of: for _ in 0..50 { if daemon_ready(session) { return Ok } sleep(100 ms) }
EnsurePoll(p) ==
    /\ pc[p] = "ed_poll"
    /\ \E c \in ConnectOutcomes :
         IF DaemonReady(c)
         THEN /\ pollOk' = [pollOk EXCEPT ![p] = @ + 1]
              /\ EnsureReturn(p, Ok(FALSE))
              /\ UNCHANGED <<polls, waited>>
         ELSE /\ polls' = [polls EXCEPT ![p] = @ + 1]
              /\ waited' = [waited EXCEPT ![p] = @ + PollDelayMs]
              /\ UNCHANGED pollOk
              /\ IF PollsExhausted(polls[p] + 1)
                 THEN EnsureReturn(p, Fail(StartTimeoutError))
                 ELSE UNCHANGED <<pc, edRet>>
    /\ UNCHANGED <<envVars, inVars, fnVars, sendVars, probe1, probe2, log, procVars>>

(***************************************************************************)
(* The worker (daemon.js): what it does to the session's artifacts.        *)
(***************************************************************************)
\* A started worker binds the socket and writes its pid.  When the socket
\* file is there, the bind fails and the worker exits, or the worker unlinks
\* the file and takes the endpoint over.
WorkerBind(w) ==
    /\ wstate[w] = "starting"
    /\ \/ /\ sockFile' = w
          /\ pidFile' = w
          /\ wstate' = [wstate EXCEPT ![w] = "listening"]
       \/ /\ sockFile /= "none"
          /\ wstate' = [wstate EXCEPT ![w] = "failed"]
          /\ UNCHANGED <<sockFile, pidFile>>
    /\ UNCHANGED <<dirExists, inVars, fnVars, edVars, sendVars, pc, log, procVars>>

\* A worker stops accepting connections: the start of its shutdown.
WorkerStop(w) ==
    /\ wstate[w] = "listening"
    /\ wstate' = [wstate EXCEPT ![w] = "closing"]
    /\ UNCHANGED <<pidFile, sockFile, dirExists, inVars, fnVars, edVars, sendVars, pc, log, procVars>>

\* A worker that shut down exits and removes the artifacts that are its own.
WorkerExit(w) ==
    /\ wstate[w] = "closing"
    /\ wstate' = [wstate EXCEPT ![w] = "dead"]
    /\ pidFile' = IF pidFile = w THEN "none" ELSE pidFile
    /\ sockFile' = IF sockFile = w THEN "none" ELSE sockFile
    /\ UNCHANGED <<dirExists, inVars, fnVars, edVars, sendVars, pc, log, procVars>>

\* A worker dies (crash, kill, failed start) and leaves its artifacts.
WorkerCrash(w) ==
    /\ wstate[w] \in Alive
    /\ wstate' = [wstate EXCEPT ![w] = "dead"]
    /\ UNCHANGED <<pidFile, sockFile, dirExists, inVars, fnVars, edVars, sendVars, pc, log, procVars>>

(***************************************************************************)
(* send_command                                                            *)
(***************************************************************************)
\* Fault: one attempt more than the limit.
MAX_RETRIES_More == 5 + 1

MAX_RETRIES == 5
RETRY_DELAY_MS == 200

\* Fault: a connection reset is not taken for transient.
IsTransientError_NoReset(error) ==
    \/ Contains(error, "os error 35")
    \/ Contains(error, "os error 11")
    \/ Contains(error, "WouldBlock")
    \/ Contains(error, "Resource temporarily unavailable")
    \/ Contains(error, "EOF")
    \/ Contains(error, "line 1 column 0")
    \/ Contains(error, "Broken pipe")
    \/ Contains(error, "os error 2")
    \/ Contains(error, "os error 61")
    \/ Contains(error, "os error 111")

\* is_transient_error: substring tests on the error text.
IsTransientError(error) ==
    \/ Contains(error, "os error 35")
    \/ Contains(error, "os error 11")
    \/ Contains(error, "WouldBlock")
    \/ Contains(error, "Resource temporarily unavailable")
    \/ Contains(error, "EOF")
    \/ Contains(error, "line 1 column 0")
    \/ Contains(error, "Connection reset")
    \/ Contains(error, "Broken pipe")
    \/ Contains(error, "os error 54")
    \/ Contains(error, "os error 104")
    \/ Contains(error, "os error 2")
    \/ Contains(error, "os error 61")
    \/ Contains(error, "os error 111")

\* Response lines a worker may answer with, parsed: success, the
\* confirmation_required flag of its data with the confirmation_id that
\* comes with it, and its error string.
Response(success, confirm, error) ==
    [success |-> success, confirm |-> confirm, error |-> error,
     cid |-> IF confirm THEN "c1" ELSE ""]

Responses ==
    { Response(TRUE, FALSE, ""),
      Response(TRUE, TRUE, ""),
      Response(FALSE, FALSE, "Element not found"),
      Response(FALSE, FALSE, "Unexpected EOF in script") }

NoResponse == Response(FALSE, FALSE, "(none)")

\* serde_json's errors for a line that is not a Response.
EMPTY == Err("EMPTY", "EOF while parsing a value at line 1 column 0")
TRUNCATED == Err("TRUNCATED", "EOF while parsing an object at line 1 column 15")
MALFORMED == Err("MALFORMED", "expected value at line 1 column 1")

Try(res, e, resp, wrote) == [res |-> res, err |-> e, resp |-> resp, delivered |-> wrote]
NoTry == Try("none", Err("", ""), NoResponse, FALSE)

\* send_command_once: connect, write the request line, read one line,
\* parse it.  The possible results of one attempt in the current state.
AttemptOutcomes ==
    LET conn == ConnectOutcomes
    IN  { Try("err", Prefixed("Failed to connect: ", c), NoResponse, FALSE) :
            c \in {c \in conn : c.kind /= "ok"} }
        \cup
        (IF \E c \in conn : c.kind = "ok"
         THEN { Try("err", Prefixed("Failed to send: ", e), NoResponse, FALSE) :
                    e \in {EPIPE, EAGAIN} }
              \cup
              { Try("err", Prefixed("Failed to read: ", e), NoResponse, TRUE) :
                    e \in {EAGAIN, ECONNRESET} }
              \cup
              { Try("err", Prefixed("Invalid response: ", e), NoResponse, TRUE) :
                    e \in {EMPTY, TRUNCATED, MALFORMED} }
              \cup
              { Try("ok", Err("", ""), r, TRUE) : r \in Responses }
         ELSE {})

\* Fault: the follow-up carries its own request id as the confirmation id.
RequestAt_OwnId(s, cid) ==
    CASE s = "action" ->
           << <<"action", "fill">>, <<"id", "r1">>, <<"selector", "#q">>,
              <<"value", "a\"b\\c\nd">> >>
      [] s \in {"confirm", "deny"} ->
           << <<"action", s>>, <<"confirmationId", "r3">>, <<"id", "r3">> >>
      [] OTHER ->
           << <<"action", "launch">>, <<"id", "r2">> >>

\* The requests main and AgentBrowser::run build, as the key/value pairs of
\* a JSON object in the order serde_json keeps them: the command of the
\* command line, the launch request, the confirm and deny follow-ups with
\* the confirmation id cid of the response they follow.
RequestAt(s, cid) ==
    CASE s = "action" ->
           << <<"action", "fill">>, <<"id", "r1">>, <<"selector", "#q">>,
              <<"value", "a\"b\\c\nd">> >>
      [] s = "confirm" ->
           << <<"action", "confirm">>, <<"confirmationId", cid>>, <<"id", "r3">> >>
      [] s = "deny" ->
           << <<"action", "deny">>, <<"confirmationId", cid>>, <<"id", "r3">> >>
      [] OTHER ->
           << <<"action", "launch">>, <<"id", "r2">> >>

\* serde_json's escaping of one character of a string.
EscapeChar(c) ==
    CASE c = "\"" -> "\\\""
      [] c = "\\" -> "\\\\"
      [] c = "\n" -> "\\n"
      [] OTHER -> c

RECURSIVE JsonEscape(_)
JsonEscape(str) ==
    IF str = "" THEN ""
    ELSE EscapeChar(SubSeq(str, 1, 1)) \o JsonEscape(SubSeq(str, 2, Len(str)))

\* Fault: a string is written between quotes as it is.
JsonString_Raw(str) == "\"" \o str \o "\""

\* serde_json's serialization of a string.
JsonString(str) == "\"" \o JsonEscape(str) \o "\""

RECURSIVE JsonMembers(_)
JsonMembers(pairs) ==
    IF pairs = <<>> THEN ""
    ELSE JsonString(Head(pairs)[1]) \o ":" \o JsonString(Head(pairs)[2])
         \o (IF Len(pairs) > 1 THEN "," ELSE "") \o JsonMembers(Tail(pairs))

\* serde_json::to_string(cmd): the compact form of the object.
ToJson(req) == "{" \o JsonMembers(req) \o "}"

\* json_str.push('\n'): the bytes send_command_once writes.
RequestLine(req) == ToJson(req) \o "\n"

\* How far an attempt got: "connect", "send", "read", "parse" name the step
\* that failed, "done" is an attempt that returned a response.
Stage(o) ==
    IF o.res = "ok" THEN "done"
    ELSE IF StartsWith(o.err.text, "Failed to connect: ") THEN "connect"
    ELSE IF StartsWith(o.err.text, "Failed to send: ") THEN "send"
    ELSE IF StartsWith(o.err.text, "Failed to read: ") THEN "read"
    ELSE "parse"

\* The bytes that may have reached the connection: all of the line when
\* write_all returned Ok, none or a part of it when it failed.
Written(o, line) ==
    CASE Stage(o) = "connect" -> {""}
      [] Stage(o) = "send" -> {"", SubSeq(line, 1, Len(line) \div 2)}
      [] OTHER -> {line}

\* What one send_command_once did: the connections it opened, its calls of
\* write_all and of read_line, and the bytes that reached the connection.
Wire(o, bytes) ==
    [connects |-> 1,
     writes |-> IF Stage(o) = "connect" THEN 0 ELSE 1,
     reads |-> IF Stage(o) \in {"read", "parse", "done"} THEN 1 ELSE 0,
     bytes |-> bytes]

NoWire == [connects |-> 0, writes |-> 0, reads |-> 0, bytes |-> ""]

SendOk(resp) == [ok |-> TRUE, resp |-> resp, err |-> ""]
SendErr(text) == [ok |-> FALSE, resp |-> NoResponse, err |-> text]
NoSend == SendErr("(not returned)")

\* The error after the last attempt failed with a transient error.
RetriesExhaustedError(last_error) ==
    last_error \o " (after " \o ToString(MAX_RETRIES)
    \o " retries - daemon may be busy or unresponsive)"

\* The caller at call site s calls send_command.
BeginSend(p, s) ==
    /\ pc' = [pc EXCEPT ![p] = "send"]
    /\ site' = [site EXCEPT ![p] = s]
    /\ tries' = [tries EXCEPT ![p] = 0]
    /\ lastError' = [lastError EXCEPT ![p] = ""]
    /\ slept' = [slept EXCEPT ![p] = 0]
    /\ lastTry' = [lastTry EXCEPT ![p] = NoTry]
    /\ wire' = [wire EXCEPT ![p] = NoWire]
    /\ UNCHANGED <<sendRet, calls>>

\* send_command returns r to its caller.
SendReturn(p, r) ==
    /\ sendRet' = [sendRet EXCEPT ![p] = r]
    /\ calls' = [calls EXCEPT ![p] = Append(@, [site |-> site[p], ok |-> r.ok])]
    /\ pc' = [pc EXCEPT ![p] = "sent"]

\* Fault: only a response with success = true ends the loop.
GotResponse_OnlySuccess(o) == o.res = "ok" /\ o.resp.success

\* match send_command_once(..) { Ok(response) => return Ok(response), .. }
GotResponse(o) == o.res = "ok"

\* Fault: the delay does not grow with the attempt.
Backoff_Constant(attempt) == IF attempt > 0 THEN RETRY_DELAY_MS ELSE 0

\* The sleep before the attempt with index attempt.
Backoff(attempt) == IF attempt > 0 THEN RETRY_DELAY_MS * attempt ELSE 0

\* One turn of send_command's loop: the sleep, send_command_once, and what
\* the loop does with its result.
SendAttempt(p) ==
    /\ pc[p] = "send"
    /\ tries[p] < MAX_RETRIES
    /\ slept' = [slept EXCEPT ![p] = @ + Backoff(tries[p])]
    /\ \E o \in AttemptOutcomes :
         /\ lastTry' = [lastTry EXCEPT ![p] = o]
         /\ \E b \in Written(o, RequestLine(RequestAt(site[p], sendRet[p].resp.cid))) :
                wire' = [wire EXCEPT ![p] = Wire(o, b)]
         /\ tries' = [tries EXCEPT ![p] = @ + 1]
         /\ IF GotResponse(o)
            THEN /\ SendReturn(p, SendOk(o.resp))
                 /\ UNCHANGED lastError
            ELSE IF IsTransientError(o.err.text)
            THEN /\ lastError' = [lastError EXCEPT ![p] = o.err.text]
                 /\ IF tries[p] + 1 < MAX_RETRIES
                    THEN UNCHANGED <<pc, sendRet, calls>>
                    ELSE SendReturn(p, SendErr(RetriesExhaustedError(o.err.text)))
            ELSE /\ SendReturn(p, SendErr(o.err.text))
                 /\ UNCHANGED lastError
    /\ UNCHANGED <<envVars, inVars, fnVars, edVars, site, log, procVars>>

(***************************************************************************)
(* main                                                                    *)
(***************************************************************************)
\* The exit: the process ends with status code.
Exit(p, code) ==
    /\ pc' = [pc EXCEPT ![p] = "exit"]
    /\ exitCode' = [exitCode EXCEPT ![p] = code]

\* ignored_flags is not empty and the output is not JSON.
WarnIgnored(f) == f.cli_launch /\ ~f.json

\* The mutually exclusive options main rejects.
MutuallyExclusive(f) ==
    \/ f.cdp /= "none" /\ f.provider
    \/ f.auto_connect /\ f.cdp /= "none"
    \/ f.auto_connect /\ f.provider
    \/ f.provider /\ f.extensions
    \/ f.cdp /= "none" /\ f.extensions

\* The condition of the local launch request.
LocalLaunch(f) == f.local /\ f.cdp = "none" /\ ~f.provider

\* The requests main sends, in order, before the action request.
LaunchSites(f) ==
    (IF f.auto_connect THEN <<"launch_auto">> ELSE <<>>)
    \o (IF f.cdp /= "none" THEN <<"launch_cdp">> ELSE <<>>)
    \o (IF f.provider THEN <<"launch_provider">> ELSE <<>>)
    \o (IF LocalLaunch(f) THEN <<"launch_local">> ELSE <<>>)
    \o <<"action">>

\* The call site that follows call site s.
SiteAfter(f, s) ==
    LET sites == LaunchSites(f)
        i == CHOOSE i \in 1..Len(sites) : sites[i] = s
    IN  sites[i + 1]

\* main goes on to call site s; a --cdp value that is neither a URL nor a
\* port in 1..65535 ends the invocation there.
MainGoto(p, s) ==
    IF s = "launch_cdp" /\ flags[p].cdp = "invalid"
    THEN /\ Exit(p, 1)
         /\ UNCHANGED sendVars
    ELSE /\ BeginSend(p, s)
         /\ UNCHANGED exitCode

\* Fault: main goes on with a command line parse_command rejected.
ParseRejected_Never(kind) == FALSE

\* Fault: main goes on after ensure_daemon returned Err.
EnsureFailed_Ignored(r) == FALSE

\* parse_command rejected the tokens: main prints the error and exits.
ParseRejected(kind) == kind = "bad"

\* ensure_daemon returned Err: main prints the error and exits.
EnsureFailed(r) == ~r.ok

\* Fault: a launch the worker answered with success = false counts as done.
LaunchFailed_TransportOnly(r) == ~r.ok

\* The launch request failed: send_command returned Err, or a response
\* with success = false; main prints the error and exits with status 1.
LaunchFailed(r) == ~r.ok \/ ~r.resp.success

\* Fault: the auth commands go to the worker like any other command.
LocalCommand_AuthRemote(kind) == kind \in {"install", "session"}

\* The commands main runs itself and returns from (or exits in): install,
\* session, and the auth_save, auth_list, auth_show, auth_delete actions.
LocalCommand(kind) == kind \in {"install", "session", "auth"}

\* main up to its call of ensure_daemon: help/version, install, session,
\* parse_command, the local auth commands, the session name check.
MainStart(p) ==
    /\ pc[p] = "start"
    /\ caller[p] = "main"
    /\ CASE cmdKind[p] = "help" -> Exit(p, 0)
         [] LocalCommand(cmdKind[p]) ->
              \E code \in (IF cmdKind[p] = "session" THEN {0} ELSE {0, 1}) : Exit(p, code)
         [] ParseRejected(cmdKind[p]) -> Exit(p, 1)
         [] OTHER ->
              IF flags[p].bad_session_name
              THEN Exit(p, 1)
              ELSE /\ pc' = [pc EXCEPT ![p] = "ed_probe1"]
                   /\ UNCHANGED exitCode
    /\ UNCHANGED <<envVars, inVars, fnVars, edVars, sendVars, log, homeEnv, warned>>

\* main after ensure_daemon returned: the error exit, the warning, the
\* mutually exclusive options, and the first request.
MainAfterEnsure(p) ==
    /\ pc[p] = "ed_done"
    /\ caller[p] = "main"
    /\ IF EnsureFailed(edRet[p])
       THEN /\ Exit(p, 1)
            /\ UNCHANGED <<sendVars, warned>>
       ELSE /\ warned' = [warned EXCEPT ![p] =
                    edRet[p].already_running /\ WarnIgnored(flags[p])]
            /\ IF MutuallyExclusive(flags[p])
               THEN /\ Exit(p, 1)
                    /\ UNCHANGED sendVars
               ELSE MainGoto(p, LaunchSites(flags[p])[1])
    /\ EnsureLeave(p)
    /\ UNCHANGED <<envVars, inVars, fnVars, log, homeEnv>>

\* The follow-up requests to a response that asks for confirmation.
Answers == {"confirm", "deny"}

\* Fault: the answer is read whether or not stdin is a terminal.
Approved_AnyInput(in) ==
    LET lower(c) ==
            IF \E i \in 1..26 : SubSeq("ABCDEFGHIJKLMNOPQRSTUVWXYZ", i, i) = c
            THEN LET i == CHOOSE i \in 1..26 : SubSeq("ABCDEFGHIJKLMNOPQRSTUVWXYZ", i, i) = c
                 IN  SubSeq("abcdefghijklmnopqrstuvwxyz", i, i)
            ELSE c
        answer == Trim(in.line)
        is(word) ==
            /\ Len(answer) = Len(word)
            /\ \A i \in 1..Len(word) : lower(SubSeq(answer, i, i)) = SubSeq(word, i, i)
    IN  in.read_ok /\ (is("y") \/ is("yes"))

\* The answer to "Allow? [y/N]": approved when stdin is a terminal, the
\* line was read, and input.trim().to_lowercase() is "y" or "yes".
Approved(in) ==
    LET lower(c) ==
            IF \E i \in 1..26 : SubSeq("ABCDEFGHIJKLMNOPQRSTUVWXYZ", i, i) = c
            THEN LET i == CHOOSE i \in 1..26 : SubSeq("ABCDEFGHIJKLMNOPQRSTUVWXYZ", i, i) = c
                 IN  SubSeq("abcdefghijklmnopqrstuvwxyz", i, i)
            ELSE c
        answer == Trim(in.line)
        is(word) ==
            /\ Len(answer) = Len(word)
            /\ \A i \in 1..Len(word) : lower(SubSeq(answer, i, i)) = SubSeq(word, i, i)
    IN  in.tty /\ in.read_ok /\ (is("y") \/ is("yes"))

\* main after send_command returned.
MainAfterSend(p) ==
    /\ pc[p] = "sent"
    /\ caller[p] = "main"
    /\ LET r == sendRet[p]
       IN  CASE site[p] \in {"launch_auto", "launch_cdp", "launch_provider", "launch_local"} ->
                  IF LaunchFailed(r)
                  THEN /\ Exit(p, 1)
                       /\ UNCHANGED sendVars
                  ELSE MainGoto(p, SiteAfter(flags[p], site[p]))
             [] site[p] = "action" ->
                  IF ~r.ok
                  THEN /\ Exit(p, 1)
                       /\ UNCHANGED sendVars
                  ELSE IF flags[p].confirm_interactive /\ r.resp.confirm
                  THEN /\ \E a \in Answers :
                            /\ a = (IF Approved(stdin[p]) THEN "confirm" ELSE "deny")
                            /\ BeginSend(p, a)
                       /\ UNCHANGED exitCode
                  ELSE /\ Exit(p, IF r.resp.success THEN 0 ELSE 1)
                       /\ UNCHANGED sendVars
             [] site[p] = "confirm" ->
                  /\ Exit(p, IF r.ok THEN 0 ELSE 1)
                  /\ UNCHANGED sendVars
             [] site[p] = "deny" ->
                  /\ Exit(p, 1)
                  /\ UNCHANGED sendVars
    /\ UNCHANGED <<envVars, inVars, fnVars, edVars, log, homeEnv, warned>>

(***************************************************************************)
(* AgentBrowser::run                                                       *)
(***************************************************************************)
LibDistDir == "/lib/dist"
LibHome == "/lib"

\* run up to connection::ensure_daemon: shell_split, parse_command, the
\* check that dist_dir holds daemon.js, AGENT_BROWSER_HOME set.
LibStart(p) ==
    /\ pc[p] = "start"
    /\ caller[p] = "lib"
    /\ IF cmdKind[p] \in {"empty", "bad"}
       THEN /\ Exit(p, 1)
            /\ UNCHANGED homeEnv
       ELSE IF PathJoin(LibDistDir, "daemon.js") \notin daemonFiles
       THEN /\ Exit(p, 1)
            /\ UNCHANGED homeEnv
       ELSE /\ homeEnv' = [homeEnv EXCEPT ![p] = LibHome]
            /\ pc' = [pc EXCEPT ![p] = "ed_probe1"]
            /\ UNCHANGED exitCode
    /\ UNCHANGED <<envVars, inVars, fnVars, edVars, sendVars, log, warned>>

\* run after connection::ensure_daemon returned.
LibAfterEnsure(p) ==
    /\ pc[p] = "ed_done"
    /\ caller[p] = "lib"
    /\ IF ~edRet[p].ok
       THEN /\ Exit(p, 1)
            /\ UNCHANGED sendVars
       ELSE /\ BeginSend(p, "action")
            /\ UNCHANGED exitCode
    /\ EnsureLeave(p)
    /\ UNCHANGED <<envVars, inVars, fnVars, log, homeEnv, warned>>

\* run after send_command returned.
LibAfterSend(p) ==
    /\ pc[p] = "sent"
    /\ caller[p] = "lib"
    /\ Exit(p, IF sendRet[p].ok /\ sendRet[p].resp.success THEN 0 ELSE 1)
    /\ UNCHANGED <<envVars, inVars, fnVars, edVars, sendVars, log, homeEnv, warned>>

(***************************************************************************)
(* Functions of their arguments.  A call is made in a state of its own:    *)
(* call holds the function and its arguments, result what it returned.     *)
(***************************************************************************)
\* No function call is under way.
NoCall == [fn |-> "none", in |-> <<>>]
NoResult == [fn |-> "none", out |-> <<>>]

\* The function fn returns out.
Return(fn, out) ==
    /\ call.fn = fn
    /\ result = NoResult
    /\ result' = [fn |-> fn, out |-> out]
    /\ UNCHANGED <<envVars, inVars, edVars, sendVars, pc, log, procVars, call>>

\* env::var(name): "unset" stands for Err(NotPresent).
Unset == "unset"

\* dirs::home_dir() on Unix: $HOME when it is set and not empty, else the
\* home directory of the password database, which may have none.
HomeDir(e) == IF e.HOME /= Unset /\ e.HOME /= "" THEN e.HOME ELSE e.passwd

\* Fault: the override is used whenever it is set, the empty string included.
SocketDirOverride_AnySet(e) == e.AGENT_BROWSER_SOCKET_DIR /= Unset

\* if let Ok(dir) = env::var("AGENT_BROWSER_SOCKET_DIR") { if !dir.is_empty() {
SocketDirOverride(e) ==
    e.AGENT_BROWSER_SOCKET_DIR /= Unset /\ e.AGENT_BROWSER_SOCKET_DIR /= ""

\* get_socket_dir in the environment e.
GetSocketDir(e) ==
    IF SocketDirOverride(e)
    THEN e.AGENT_BROWSER_SOCKET_DIR
    ELSE IF e.XDG_RUNTIME_DIR /= Unset /\ e.XDG_RUNTIME_DIR /= ""
    THEN PathJoin(e.XDG_RUNTIME_DIR, "agent-browser")
    ELSE IF HomeDir(e) /= Unset
    THEN PathJoin(HomeDir(e), ".agent-browser")
    ELSE PathJoin(e.tmp, "agent-browser")

\* Option<T>: None, or Some(v).
None == <<>>
Some(v) == <<v>>

\* [String]::join(sep)
RECURSIVE Join(_, _)
Join(list, sep) ==
    IF list = <<>> THEN ""
    ELSE IF Len(list) = 1 THEN list[1]
    ELSE list[1] \o sep \o Join(Tail(list), sep)

\* Fault: a flag that is off is passed as "0".
EnvFlag_Always(name, on) == << <<name, IF on THEN "1" ELSE "0">> >>

\* if opts.flag { cmd.env(name, "1"); }
EnvFlag(name, on) == IF on THEN << <<name, "1">> >> ELSE <<>>

\* if let Some(v) = opts.field { cmd.env(name, v); }
EnvOption(name, opt) == IF opt /= None THEN << <<name, opt[1]>> >> ELSE <<>>

\* apply_daemon_env: the calls of cmd.env, in order, as <<name, value>>.
ApplyDaemonEnv(sess, opts) ==
    << <<"AGENT_BROWSER_DAEMON", "1">>, <<"AGENT_BROWSER_SESSION", sess>> >>
    \o EnvFlag("AGENT_BROWSER_HEADED", opts.headed)
    \o EnvOption("AGENT_BROWSER_EXECUTABLE_PATH", opts.executable_path)
    \o (IF opts.extensions /= <<>>
         THEN << <<"AGENT_BROWSER_EXTENSIONS", Join(opts.extensions, ",")>> >>
         ELSE <<>>)
    \o EnvOption("AGENT_BROWSER_ARGS", opts.args)
    \o EnvOption("AGENT_BROWSER_USER_AGENT", opts.user_agent)
    \o EnvOption("AGENT_BROWSER_PROXY", opts.proxy)
    \o EnvOption("AGENT_BROWSER_PROXY_BYPASS", opts.proxy_bypass)
    \o EnvFlag("AGENT_BROWSER_IGNORE_HTTPS_ERRORS", opts.ignore_https_errors)
    \o EnvFlag("AGENT_BROWSER_ALLOW_FILE_ACCESS", opts.allow_file_access)
    \o EnvOption("AGENT_BROWSER_PROFILE", opts.profile)
    \o EnvOption("AGENT_BROWSER_STATE", opts.state)
    \o EnvOption("AGENT_BROWSER_PROVIDER", opts.provider)
    \o EnvOption("AGENT_BROWSER_IOS_DEVICE", opts.device)
    \o EnvOption("AGENT_BROWSER_SESSION_NAME", opts.session_name)
    \o EnvOption("AGENT_BROWSER_DOWNLOAD_PATH", opts.download_path)
    \o (IF opts.allowed_domains /= None
         THEN << <<"AGENT_BROWSER_ALLOWED_DOMAINS", Join(opts.allowed_domains[1], ",")>> >>
         ELSE <<>>)
    \o EnvOption("AGENT_BROWSER_ACTION_POLICY", opts.action_policy)
    \o EnvOption("AGENT_BROWSER_CONFIRM_ACTIONS", opts.confirm_actions)

\* A string that is not empty and whose every char is_ascii_digit.
AllDigits(str) ==
    /\ str /= ""
    /\ \A i \in 1..Len(str) : \E d \in 1..10 : SubSeq("0123456789", d, d) = SubSeq(str, i, i)

\* A number in decimal without its leading zeros: numbers are kept as the
\* digits that print them, so that no width is exceeded in computing them.
RECURSIVE StripZeros(_)
StripZeros(digits) ==
    IF Len(digits) > 1 /\ SubSeq(digits, 1, 1) = "0"
    THEN StripZeros(SubSeq(digits, 2, Len(digits)))
    ELSE digits

\* a <= b for two such numbers.
RECURSIVE DecLeq(_, _)
DecLeq(a, b) ==
    IF Len(a) /= Len(b) THEN Len(a) < Len(b)
    ELSE IF a = "" THEN TRUE
    ELSE IF SubSeq(a, 1, 1) /= SubSeq(b, 1, 1)
    THEN LET value(c) == CHOOSE d \in 0..9 : SubSeq("0123456789", d + 1, d + 1) = c
         IN  value(SubSeq(a, 1, 1)) < value(SubSeq(b, 1, 1))
    ELSE DecLeq(SubSeq(a, 2, Len(a)), SubSeq(b, 2, Len(b)))

Parsed(val) == [ok |-> TRUE, val |-> val]
NotParsed == [ok |-> FALSE, val |-> ""]

\* str::parse for an unsigned integer type of maximum max: an optional
\* "+", then digits only, and a value within the type.
ParseUnsigned(str, max) ==
    LET digits == IF StartsWith(str, "+") THEN SubSeq(str, 2, Len(str)) ELSE str
    IN  IF AllDigits(digits) /\ DecLeq(StripZeros(digits), max)
        THEN Parsed(StripZeros(digits))
        ELSE NotParsed

\* get_port_for_session (windows): the port the file <session>.port holds,
\* parsed as a u16 (at most 65535); port_file is None when the file cannot
\* be read.
GetPortForSession(port_file) ==
    IF port_file = None THEN None
    ELSE LET n == ParseUnsigned(Trim(port_file[1]), "65535")
         IN  IF n.ok THEN Some(n.val) ELSE None

\* connect (windows) up to TcpStream::connect: the port dialled on
\* 127.0.0.1, or the error.  The session name only names the port file.
ConnectTcp(sess, port_file) ==
    LET port == GetPortForSession(port_file)
    IN  IF port /= None
        THEN [dialled |-> TRUE, port |-> port[1], err |-> ""]
        ELSE [dialled |-> FALSE, port |-> "",
              err |-> "Port file not found (daemon not running?)"]

\* str::parse::<i32>: an optional "+" or "-", then digits only, and a value
\* within the type, -2147483648..2147483647.
ParseI32(str) ==
    LET negative == StartsWith(str, "-")
        signed == negative \/ StartsWith(str, "+")
        digits == IF signed THEN SubSeq(str, 2, Len(str)) ELSE str
        n == StripZeros(digits)
    IN  IF ~AllDigits(digits) THEN NotParsed
        ELSE IF negative
        THEN (IF DecLeq(n, "2147483648")
              THEN Parsed(IF n = "0" THEN "0" ELSE "-" \o n)
              ELSE NotParsed)
        ELSE (IF DecLeq(n, "2147483647") THEN Parsed(n) ELSE NotParsed)

\* The values of a request's fields: a JSON string, number, boolean, null.
JStr(str) == <<"string", str>>
JNum(digits) == <<"number", digits>>
JBool(b) == <<"bool", IF b THEN "true" ELSE "false">>
JNull == <<"null", "">>

\* json!(opt) for an Option<&str>.
JOpt(opt) == IF opt = None THEN JNull ELSE JStr(opt[1])

\* parse_command's result: None, or Some(request); a request is its fields,
\* a field within the first element of an array named "array[0].field".
NoRequest == [some |-> FALSE, req |-> <<>>]
Request(fields) == [some |-> TRUE, req |-> fields]

\* Fault: the correlation id is left out of the object.
Object_NoId(id, action, more) ==
    [k \in {"action"} \cup {more[i][1] : i \in 1..Len(more)} |->
        IF k = "action" THEN JStr(action)
        ELSE more[CHOOSE i \in 1..Len(more) : more[i][1] = k][2]]

\* json!({ "id": id, "action": action, .. }) with the fields of more.
Object(id, action, more) ==
    [k \in {"id", "action"} \cup {more[i][1] : i \in 1..Len(more)} |->
        IF k = "id" THEN JStr(id)
        ELSE IF k = "action" THEN JStr(action)
        ELSE more[CHOOSE i \in 1..Len(more) : more[i][1] = k][2]]

\* obj.insert(key, value)
Insert(obj, key, value) ==
    [k \in DOMAIN obj \cup {key} |-> IF k = key THEN value ELSE obj[k]]

\* rest.get(i), i counted from 0.
Get(rest, i) == IF i < Len(rest) THEN Some(rest[i + 1]) ELSE None

\* opt.unwrap_or(default)
UnwrapOr(opt, default) == IF opt = None THEN default ELSE opt[1]

\* url.starts_with("http")
HasProtocol(url) == StartsWith(url, "http")

\* "open" | "goto" | "navigate"
ParseNavigate(id, rest) ==
    IF Get(rest, 0) = None THEN NoRequest
    ELSE LET url == Get(rest, 0)[1]
         IN  Request(Object(id, "navigate",
                << <<"url", JStr(IF HasProtocol(url) THEN url ELSE "https://" \o url)>> >>))

\* rest.get(i).and_then(|s| s.parse::<i32>().ok())
GetI32(rest, i) ==
    IF Get(rest, i) /= None /\ ParseI32(Get(rest, i)[1]).ok
    THEN Some(ParseI32(Get(rest, i)[1]).val)
    ELSE None

\* "scroll"
ParseScroll(id, rest) ==
    Request(Object(id, "scroll",
        << <<"direction", JStr(UnwrapOr(Get(rest, 0), "down"))>>,
           <<"amount", JNum(UnwrapOr(GetI32(rest, 1), "300"))>> >>))

\* Fault: the argument is a timeout when it is an i32.
WaitTimeout_I32(arg) == ParseI32(arg)

\* arg.parse::<u64>(), u64::MAX being 18446744073709551615.
WaitTimeout(arg) == ParseUnsigned(arg, "18446744073709551615")

\* "wait"
ParseWait(id, rest) ==
    IF Get(rest, 0) = None THEN NoRequest
    ELSE LET arg == Get(rest, 0)[1]
         IN  IF WaitTimeout(arg).ok
             THEN Request(Object(id, "wait", << <<"timeout", JNum(WaitTimeout(arg).val)>> >>))
             ELSE Request(Object(id, "wait", << <<"selector", JStr(arg)>> >>))

\* "snapshot": the loop over rest from index i on, obj being the request so far.
RECURSIVE SnapshotOptions(_, _, _)
SnapshotOptions(rest, i, obj) ==
    IF i >= Len(rest) THEN obj
    ELSE LET arg == rest[i + 1]
         IN  CASE arg \in {"-i", "--interactive"} ->
                    SnapshotOptions(rest, i + 1, Insert(obj, "interactive", JBool(TRUE)))
               [] arg \in {"-c", "--compact"} ->
                    SnapshotOptions(rest, i + 1, Insert(obj, "compact", JBool(TRUE)))
               [] arg \in {"-d", "--depth"} ->
                    IF GetI32(rest, i + 1) /= None
                    THEN SnapshotOptions(rest, i + 2,
                            Insert(obj, "maxDepth", JNum(GetI32(rest, i + 1)[1])))
                    ELSE SnapshotOptions(rest, i + 1, obj)
               [] arg \in {"-s", "--selector"} ->
                    IF Get(rest, i + 1) /= None
                    THEN SnapshotOptions(rest, i + 2,
                            Insert(obj, "selector", JStr(Get(rest, i + 1)[1])))
                    ELSE SnapshotOptions(rest, i + 1, obj)
               [] OTHER -> SnapshotOptions(rest, i + 1, obj)

\* "mouse"
ParseMouse(id, rest) ==
    CASE Get(rest, 0) = Some("move") ->
           IF GetI32(rest, 1) = None \/ GetI32(rest, 2) = None THEN NoRequest
           ELSE Request(Object(id, "mousemove",
                   << <<"x", JNum(GetI32(rest, 1)[1])>>, <<"y", JNum(GetI32(rest, 2)[1])>> >>))
      [] Get(rest, 0) = Some("down") ->
           Request(Object(id, "mousedown", << <<"button", JStr(UnwrapOr(Get(rest, 1), "left"))>> >>))
      [] Get(rest, 0) = Some("up") ->
           Request(Object(id, "mouseup", << <<"button", JStr(UnwrapOr(Get(rest, 1), "left"))>> >>))
      [] Get(rest, 0) = Some("wheel") ->
           Request(Object(id, "mousewheel",
               << <<"deltaX", JNum(UnwrapOr(GetI32(rest, 2), "0"))>>,
                  <<"deltaY", JNum(UnwrapOr(GetI32(rest, 1), "100"))>> >>))
      [] OTHER -> NoRequest

\* Fault: the value is passed on as the Option it is.
StorageSet_OptionalValue(id, type, key, value) ==
    IF key = None THEN NoRequest
    ELSE Request(Object(id, "storage_set",
            << <<"type", JStr(type)>>, <<"key", JStr(key[1])>>, <<"value", JOpt(value)>> >>))

\* "set" => json!({ .., "key": key?, "value": value? })
StorageSet(id, type, key, value) ==
    IF key = None \/ value = None THEN NoRequest
    ELSE Request(Object(id, "storage_set",
            << <<"type", JStr(type)>>, <<"key", JStr(key[1])>>, <<"value", JStr(value[1])>> >>))

\* "storage"
ParseStorage(id, rest) ==
    IF Get(rest, 0) \notin {Some("local"), Some("session")} THEN NoRequest
    ELSE LET type == Get(rest, 0)[1]
             op == UnwrapOr(Get(rest, 1), "get")
             key == Get(rest, 2)
             value == Get(rest, 3)
         IN  CASE op = "set" -> StorageSet(id, type, key, value)
               [] op = "clear" -> Request(Object(id, "storage_clear", << <<"type", JStr(type)>> >>))
               [] OTHER ->
                    Request(Object(id, "storage_get",
                        << <<"type", JStr(type)>> >>
                        \o (IF key /= None THEN << <<"key", JStr(key[1])>> >> ELSE <<>>)))

\* "cookies"
ParseCookies(id, rest) ==
    LET op == UnwrapOr(Get(rest, 0), "get")
    IN  CASE op = "set" ->
               IF Get(rest, 1) = None \/ Get(rest, 2) = None THEN NoRequest
               ELSE Request(Object(id, "cookies_set",
                       << <<"cookies[0].name", JStr(Get(rest, 1)[1])>>,
                          <<"cookies[0].value", JStr(Get(rest, 2)[1])>> >>))
          [] op = "clear" -> Request(Object(id, "cookies_clear", <<>>))
          [] OTHER -> Request(Object(id, "cookies_get", <<>>))

\* "tab"
ParseTab(id, rest) ==
    CASE Get(rest, 0) = Some("new") ->
           Request(Object(id, "tab_new", << <<"url", JOpt(Get(rest, 1))>> >>))
      [] Get(rest, 0) = Some("list") -> Request(Object(id, "tab_list", <<>>))
      [] Get(rest, 0) = Some("close") ->
           Request(Object(id, "tab_close",
               << <<"index", IF GetI32(rest, 1) = None THEN JNull
                             ELSE JNum(GetI32(rest, 1)[1])>> >>))
      [] Get(rest, 0) \notin {Some("new"), Some("list"), Some("close")}
         /\ GetI32(rest, 0) /= None ->
           Request(Object(id, "tab_switch", << <<"index", JNum(GetI32(rest, 0)[1])>> >>))
      [] OTHER -> Request(Object(id, "tab_list", <<>>))

\* rest.iter().position(|&s| s == flag).and_then(|i| rest.get(i + 1)): the
\* token after the first occurrence of flag.
FlagValue(rest, flag) ==
    IF \E i \in 1..Len(rest) : rest[i] = flag
    THEN LET i == CHOOSE i \in 1..Len(rest) :
                      rest[i] = flag /\ \A j \in 1..(i - 1) : rest[j] /= flag
         IN  IF i < Len(rest) THEN Some(rest[i + 1]) ELSE None
    ELSE None

\* "network"
ParseNetwork(id, rest) ==
    CASE Get(rest, 0) = Some("route") ->
           IF Get(rest, 1) = None THEN NoRequest
           ELSE Request(Object(id, "route",
                   << <<"url", JStr(rest[2])>>,
                      <<"abort", JBool(\E i \in 1..Len(rest) : rest[i] = "--abort")>>,
                      <<"body", JOpt(FlagValue(rest, "--body"))>> >>))
      [] Get(rest, 0) = Some("unroute") ->
           Request(Object(id, "unroute", << <<"url", JOpt(Get(rest, 1))>> >>))
      [] Get(rest, 0) = Some("requests") ->
           Request(Object(id, "requests",
               << <<"clear", JBool(\E i \in 1..Len(rest) : rest[i] = "--clear")>>,
                  <<"filter", JOpt(FlagValue(rest, "--filter"))>> >>))
      [] OTHER -> NoRequest

\* parse_find: the locator, its value, the subaction (default "click"), the
\* fill value (the tokens from the fourth on, joined), --name and --exact.
ParseFind(id, rest) ==
    IF Get(rest, 0) = None \/ Get(rest, 1) = None THEN NoRequest
    ELSE LET locator == rest[1]
             value == rest[2]
             subaction == <<"subaction", JStr(UnwrapOr(Get(rest, 2), "click"))>>
             fill_value ==
                 <<"value", IF Len(rest) > 3
                            THEN JStr(Join(SubSeq(rest, 4, Len(rest)), " "))
                            ELSE JNull>>
             name == <<"name", JOpt(FlagValue(rest, "--name"))>>
             exact == <<"exact", JBool(\E i \in 1..Len(rest) : rest[i] = "--exact")>>
         IN  CASE locator = "role" ->
                    Request(Object(id, "getbyrole",
                        << <<"role", JStr(value)>>, subaction, fill_value, name, exact >>))
               [] locator = "text" ->
                    Request(Object(id, "getbytext", << <<"text", JStr(value)>>, subaction, exact >>))
               [] locator = "label" ->
                    Request(Object(id, "getbylabel",
                        << <<"label", JStr(value)>>, subaction, fill_value, exact >>))
               [] locator = "placeholder" ->
                    Request(Object(id, "getbyplaceholder",
                        << <<"placeholder", JStr(value)>>, subaction, fill_value, exact >>))
               [] locator = "alt" ->
                    Request(Object(id, "getbyalttext", << <<"text", JStr(value)>>, subaction, exact >>))
               [] locator = "title" ->
                    Request(Object(id, "getbytitle", << <<"text", JStr(value)>>, subaction, exact >>))
               [] locator = "testid" ->
                    Request(Object(id, "getbytestid",
                        << <<"testId", JStr(value)>>, subaction, fill_value >>))
               [] locator = "first" ->
                    Request(Object(id, "nth",
                        << <<"selector", JStr(value)>>, <<"index", JNum("0")>>,
                           subaction, fill_value >>))
               [] locator = "last" ->
                    Request(Object(id, "nth",
                        << <<"selector", JStr(value)>>, <<"index", JNum("-1")>>,
                           subaction, fill_value >>))
               [] locator = "nth" ->
                    IF ~ParseI32(value).ok \/ Get(rest, 2) = None THEN NoRequest
                    ELSE Request(Object(id, "nth",
                            << <<"selector", JStr(rest[3])>>,
                               <<"index", JNum(ParseI32(value).val)>>,
                               <<"subaction", JStr(UnwrapOr(Get(rest, 3), "click"))>>,
                               <<"value", IF Len(rest) > 4
                                          THEN JStr(Join(SubSeq(rest, 5, Len(rest)), " "))
                                          ELSE JNull>> >>))
               [] OTHER -> NoRequest

\* parse_command(args, flags) with gen_id() = id, for the verbs open, goto,
\* navigate, back, click, scroll, wait, snapshot, get, is, find, mouse,
\* network, storage, cookies, tab, window, dialog, trace and state, and for a
\* first token that is no verb at all.
ParseCommand(args, id) ==
    IF args = <<>> THEN NoRequest
    ELSE LET cmd == args[1]
             rest == Tail(args)
             \* a sub-verb with one required argument, rest.get(1)?, sent as field
             SubVerb(action, field) ==
                 IF Get(rest, 1) = None THEN NoRequest
                 ELSE Request(Object(id, action, << <<field, JStr(rest[2])>> >>))
         IN  CASE cmd \in {"open", "goto", "navigate"} -> ParseNavigate(id, rest)
               [] cmd = "back" -> Request(Object(id, "back", <<>>))
               [] cmd = "click" ->
                    IF Get(rest, 0) = None THEN NoRequest
                    ELSE Request(Object(id, "click", << <<"selector", JStr(rest[1])>> >>))
               [] cmd = "scroll" -> ParseScroll(id, rest)
               [] cmd = "wait" -> ParseWait(id, rest)
               [] cmd = "snapshot" ->
                    Request(SnapshotOptions(rest, 0, Object(id, "snapshot", <<>>)))
               [] cmd = "get" ->
                    CASE Get(rest, 0) = Some("text") -> SubVerb("gettext", "selector")
                      [] Get(rest, 0) = Some("html") -> SubVerb("innerhtml", "selector")
                      [] Get(rest, 0) = Some("value") -> SubVerb("inputvalue", "selector")
                      [] Get(rest, 0) = Some("attr") ->
                           IF Get(rest, 1) = None \/ Get(rest, 2) = None THEN NoRequest
                           ELSE Request(Object(id, "getattribute",
                                   << <<"selector", JStr(rest[2])>>,
                                      <<"attribute", JStr(rest[3])>> >>))
                      [] Get(rest, 0) = Some("url") -> Request(Object(id, "url", <<>>))
                      [] Get(rest, 0) = Some("title") -> Request(Object(id, "title", <<>>))
                      [] Get(rest, 0) = Some("count") -> SubVerb("count", "selector")
                      [] Get(rest, 0) = Some("box") -> SubVerb("boundingbox", "selector")
                      [] OTHER -> NoRequest
               [] cmd = "is" ->
                    CASE Get(rest, 0) = Some("visible") -> SubVerb("isvisible", "selector")
                      [] Get(rest, 0) = Some("enabled") -> SubVerb("isenabled", "selector")
                      [] Get(rest, 0) = Some("checked") -> SubVerb("ischecked", "selector")
                      [] OTHER -> NoRequest
               [] cmd = "find" -> ParseFind(id, rest)
               [] cmd = "mouse" -> ParseMouse(id, rest)
               [] cmd = "network" -> ParseNetwork(id, rest)
               [] cmd = "storage" -> ParseStorage(id, rest)
               [] cmd = "cookies" -> ParseCookies(id, rest)
               [] cmd = "tab" -> ParseTab(id, rest)
               [] cmd = "window" ->
                    IF Get(rest, 0) = Some("new")
                    THEN Request(Object(id, "window_new", <<>>))
                    ELSE NoRequest
               [] cmd = "dialog" ->
                    CASE Get(rest, 0) = Some("accept") ->
                           Request(Object(id, "dialog",
                               << <<"response", JStr("accept")>>,
                                  <<"promptText", JOpt(Get(rest, 1))>> >>))
                      [] Get(rest, 0) = Some("dismiss") ->
                           Request(Object(id, "dialog", << <<"response", JStr("dismiss")>> >>))
                      [] OTHER -> NoRequest
               [] cmd = "trace" ->
                    CASE Get(rest, 0) = Some("start") ->
                           Request(Object(id, "trace_start", << <<"path", JOpt(Get(rest, 1))>> >>))
                      [] Get(rest, 0) = Some("stop") ->
                           Request(Object(id, "trace_stop", << <<"path", JOpt(Get(rest, 1))>> >>))
                      [] OTHER -> NoRequest
               [] cmd = "state" ->
                    CASE Get(rest, 0) = Some("save") -> SubVerb("state_save", "path")
                      [] Get(rest, 0) = Some("load") -> SubVerb("state_load", "path")
                      [] OTHER -> NoRequest
               [] OTHER -> NoRequest

(***************************************************************************)
(* Inputs and the specification                                            *)
(***************************************************************************)
DefaultFlags ==
    [json |-> FALSE, bad_session_name |-> FALSE, cli_launch |-> FALSE,
     auto_connect |-> FALSE, cdp |-> "none", provider |-> FALSE,
     extensions |-> FALSE, local |-> FALSE, confirm_interactive |-> FALSE]

FlagChoices ==
    { DefaultFlags,
      [DefaultFlags EXCEPT !.bad_session_name = TRUE],
      [DefaultFlags EXCEPT !.cli_launch = TRUE, !.local = TRUE],
      [DefaultFlags EXCEPT !.cli_launch = TRUE, !.local = TRUE, !.json = TRUE],
      [DefaultFlags EXCEPT !.local = TRUE],
      [DefaultFlags EXCEPT !.cdp = "invalid"],
      [DefaultFlags EXCEPT !.cdp = "port", !.provider = TRUE],
      [DefaultFlags EXCEPT !.confirm_interactive = TRUE] }

\* One invocation's inputs.  Scenarios vary one input of the base at a time.
Base ==
    [dir |-> ShortDir, name |-> "default", caller |-> "main", cmd |-> "action",
     flags |-> DefaultFlags, home |-> "unset", files |-> {"dist/daemon.js"},
     stdin |-> [tty |-> FALSE, read_ok |-> TRUE, line |-> "y\n"]]

Scenarios ==
    { [Base EXCEPT !.dir = d[1], !.name = d[2]] : d \in SessionInputs }
    \cup { [Base EXCEPT !.cmd = c] : c \in {"help", "session", "install", "auth", "bad"} }
    \cup { [Base EXCEPT !.flags = f] : f \in FlagChoices }
    \cup { [Base EXCEPT !.files = {}],
           [Base EXCEPT !.home = "/opt/ab", !.files = {"/opt/ab/daemon.js", "dist/daemon.js"}] }
    \cup { [Base EXCEPT !.flags = [DefaultFlags EXCEPT !.confirm_interactive = TRUE],
                         !.stdin = [tty |-> TRUE, read_ok |-> TRUE, line |-> " Yes\n"]] }
    \cup { [Base EXCEPT !.caller = "lib", !.cmd = c, !.files = fs] :
             c \in {"action", "empty", "bad"},
             fs \in {{}, {"/lib/dist/daemon.js"}} }

\* The artifacts and the worker an invocation may find.
InitEnv ==
    /\ dirExists \in BOOLEAN
    /\ wstate \in [Workers -> {"none", "listening", "closing", "dead"}]
    /\ \A w \in Workers \ {"w0"} : wstate[w] = "none"
    /\ pidFile \in {"none", "garbage", "w0"}
    /\ sockFile \in {"none", "w0"}
    /\ wstate["w0"] = "none" => pidFile /= "w0" /\ sockFile /= "w0"
    /\ ~dirExists => pidFile = "none" /\ sockFile = "none" /\ wstate["w0"] \in {"none", "dead"}
    \* no worker was ever bound to a path ensure_daemon refuses to spawn on
    /\ Len(SocketPath) > MaxSocketPathLen => sockFile = "none" /\ wstate["w0"] = "none"

\* The control state and the history of invocations that have not started;
\* those of running are about to.
Fresh(running) ==
    /\ pc = [p \in Procs |-> IF p \in running THEN "start" ELSE "off"]
    /\ polls = [p \in Procs |-> 0]
    /\ pollOk = [p \in Procs |-> 0]
    /\ waited = [p \in Procs |-> 0]
    /\ edRet = [p \in Procs |-> NoRet]
    /\ probe1 = [p \in Procs |-> "none"]
    /\ probe2 = [p \in Procs |-> "none"]
    /\ site = [p \in Procs |-> "none"]
    /\ tries = [p \in Procs |-> 0]
    /\ lastError = [p \in Procs |-> ""]
    /\ slept = [p \in Procs |-> 0]
    /\ sendRet = [p \in Procs |-> NoSend]
    /\ calls = [p \in Procs |-> <<>>]
    /\ lastTry = [p \in Procs |-> NoTry]
    /\ wire = [p \in Procs |-> NoWire]
    /\ log = [p \in Procs |-> <<>>]
    /\ warned = [p \in Procs |-> FALSE]
    /\ exitCode = [p \in Procs |-> -1]

\* The invocations of running are given the inputs of scenario sc.
Given(running, sc) ==
    /\ sockDir = sc.dir
    /\ session = sc.name
    /\ daemonFiles = sc.files
    /\ caller = [p \in Procs |-> IF p \in running THEN sc.caller ELSE "off"]
    /\ cmdKind = [p \in Procs |-> sc.cmd]
    /\ flags = [p \in Procs |-> sc.flags]
    /\ homeEnv = [p \in Procs |-> sc.home]
    /\ stdin = [p \in Procs |-> sc.stdin]

\* The state in which the invocations of running start.  Those that read
\* their answer from a terminal find the session's worker running.
InitWith(running) ==
    /\ \E sc \in Scenarios : Given(running, sc)
    /\ InitEnv
    /\ (\E p \in Procs : stdin[p].tty) =>
            dirExists /\ pidFile = "w0" /\ sockFile = "w0" /\ wstate["w0"] = "listening"
    /\ Fresh(running)
    /\ call = NoCall
    /\ result = NoResult

Init == InitWith(SoloProcs)

Next ==
    \/ \E p \in Procs : MainStart(p)
    \/ \E p \in Procs : LibStart(p)
    \/ \E p \in Procs : EnsureProbe1(p)
    \/ \E p \in Procs : EnsureProbe2(p)
    \/ \E p \in Procs : EnsureRmPid(p)
    \/ \E p \in Procs : EnsureRmSock(p)
    \/ \E p \in Procs : EnsureMkdir(p)
    \/ \E p \in Procs : EnsurePreflight(p)
    \/ \E p \in Procs : EnsureLocate(p)
    \/ \E p \in Procs : EnsureSpawn(p)
    \/ \E p \in Procs : EnsurePoll(p)
    \/ \E p \in Procs : MainAfterEnsure(p)
    \/ \E p \in Procs : LibAfterEnsure(p)
    \/ \E p \in Procs : SendAttempt(p)
    \/ \E p \in Procs : MainAfterSend(p)
    \/ \E p \in Procs : LibAfterSend(p)
    \/ \E w \in Workers : WorkerBind(w)
    \/ \E w \in Workers : WorkerStop(w)
    \/ \E w \in Workers : WorkerExit(w)
    \/ \E w \in Workers : WorkerCrash(w)

Spec == Init /\ [][Next]_vars

\* DaemonOptions: the fields that are flags, and all its fields (the others
\* are Option<&str>, but for the two lists).
FlagOptions == {"headed", "ignore_https_errors", "allow_file_access"}
DaemonOptionNames ==
    FlagOptions
    \cup {"executable_path", "args", "user_agent", "proxy", "proxy_bypass", "profile",
          "state", "provider", "device", "session_name", "download_path",
          "action_policy", "confirm_actions"}
    \cup {"extensions", "allowed_domains"}

\* What <session>.port may hold when connect runs: no file, a port a worker
\* wrote, another worker's port, text that is no u16.
PortFiles ==
    {None, Some("49500"), Some("50123\n"), Some(" 8080 "), Some("65536"), Some("port"), Some("")}

\* The calls made under FnSpec.
\*   Environments: the environments get_socket_dir may run in.
\*   DaemonOptionsWith(given, blank): the DaemonOptions in which the options
\*     of given are given (the others have their defaults); blank makes every
\*     given value the empty string, and the allowed domains the empty list.
\*   GivenOptions: none, one, two, and all of the options given.
\*   DaemonFileChoices: the daemon.js files that may exist when the search runs.
\*   Targets: navigation targets, with and without a scheme.
\*   NumberTokens: tokens given where a number is expected.
\*   KeyValueTails: the tokens that follow "storage <type>" and "cookies".
\*   MultiLevel: the verbs whose second token selects a sub-verb.
\*   FindPositionals, FindFlags: the positional tokens of find, and the flag
\*     tokens that may follow them; RouteFlags and RequestsFlags likewise
\*     for network route and network requests.
\*   CommandLines: the command lines parse_command is called with.
Calls ==
    LET Environments ==
            [AGENT_BROWSER_SOCKET_DIR : {Unset, "", "/custom/socket/path", "sockets"},
             XDG_RUNTIME_DIR : {Unset, "", "/run/user/1000", "/run/user/1000/"},
             HOME : {Unset, "", "/home/user"},
             passwd : {Unset, "/home/pw"},
             tmp : {"/tmp"}]
        DaemonOptionsWith(given, blank) ==
            [o \in DaemonOptionNames |->
                IF o \in FlagOptions THEN o \in given
                ELSE IF o = "extensions"
                THEN (IF o \in given THEN <<"/ext/a", "/ext/b">> ELSE <<>>)
                ELSE IF o = "allowed_domains"
                THEN (IF o \notin given THEN None
                      ELSE IF blank THEN Some(<<>>) ELSE Some(<<"a.com", "b.org">>))
                ELSE (IF o \notin given THEN None
                      ELSE IF blank THEN Some("") ELSE Some("v:" \o o))]
        GivenOptions ==
            {g \in SUBSET DaemonOptionNames : Cardinality(g) <= 2} \cup {DaemonOptionNames}
        DaemonFileChoices ==
            SUBSET {"/opt/ab/dist/daemon.js", "/opt/ab/daemon.js", "<exe_dir>/daemon.js",
                    "<exe_dir>/../dist/daemon.js", "dist/daemon.js"}
        Targets ==
            {"example.com", "https://example.com", "http://example.com/a?b=c",
             "httpbin.org", "http", "ftp://files.example.com", "file:///tmp/a.html",
             "localhost:3000", "about:blank", "HTTPS://EXAMPLE.COM", ""}
        NumberTokens ==
            {"5", "0", "007", "+5", "-5", "-0", "abc", "", "12px", "1.5", " 5", "+", "-",
             "2147483647", "2147483648", "-2147483648", "-2147483649", "4294967296",
             "18446744073709551615", "18446744073709551616", "00018446744073709551615"}
        KeyValueTails ==
            {<<>>, <<"set">>, <<"set", "k">>, <<"set", "k", "v">>,
             <<"set", "k", "v", "w">>, <<"set", "", "">>, <<"get">>, <<"get", "k">>,
             <<"clear">>, <<"k">>}
        MultiLevel ==
            {"get", "is", "find", "mouse", "network", "storage", "cookies", "tab",
             "window", "dialog", "trace", "state"}
        FindPositionals ==
            {<<>>, <<"role">>, <<"role", "button">>, <<"role", "button", "click">>,
             <<"role", "textbox", "fill", "hello", "world">>, <<"text", "Sign in">>,
             <<"label", "Email", "fill", "a@b.c">>, <<"placeholder", "Search", "type", "q">>,
             <<"alt", "Logo">>, <<"title", "Close", "hover">>, <<"testid", "submit">>,
             <<"first", "li", "click">>, <<"last", "li">>, <<"nth", "2", "li", "click">>,
             <<"nth", "2">>, <<"nth", "x", "li">>, <<"nth", "-1", "li", "fill", "v">>,
             <<"css", ".a">>}
        FindFlags ==
            {<<>>, <<"--exact">>, <<"--name", "Submit">>, <<"--name", "Submit", "--exact">>,
             <<"--name">>}
        RouteFlags ==
            {<<>>, <<"--abort">>, <<"--body", "{}">>, <<"--body", "{}", "--abort">>, <<"--body">>}
        RequestsFlags ==
            {<<>>, <<"--clear">>, <<"--filter", "api">>, <<"--clear", "--filter", "api">>,
             <<"--filter">>}
        CommandLines ==
            {<<>>, <<"frobnicate", "x">>, <<"back">>, <<"click">>, <<"click", "#a">>,
             <<"scroll">>, <<"mouse">>, <<"mouse", "wheel">>, <<"mouse", "down">>,
             <<"mouse", "up", "right">>, <<"mouse", "move", "1">>,
             <<"mouse", "move", "1", "-2">>, <<"tab">>, <<"tab", "new">>,
             <<"tab", "list">>, <<"tab", "close">>, <<"tab", "x">>, <<"snapshot">>,
             <<"snapshot", "-d">>, <<"snapshot", "-s">>, <<"snapshot", "-d", "-i">>,
             <<"snapshot", "-i", "--depth", "3", "-c", "-s", "#main">>, <<"wait">>,
             <<"wait", "#ready">>, <<"wait", "5", "#ready">>, <<"storage">>,
             <<"storage", "local">>, <<"storage", "cache", "set", "k", "v">>}
            \cup {<<v>> : v \in MultiLevel}
            \cup {<<v, "frobnicate">> : v \in MultiLevel}
            \cup {<<v, "frobnicate", "x", "y">> : v \in MultiLevel}
            \cup {<<"get", s>> \o tail :
                    s \in {"text", "html", "value", "attr", "url", "title", "count", "box"},
                    tail \in {<<>>, <<"#a">>, <<"#a", "href">>}}
            \cup {<<"is", s>> \o tail :
                    s \in {"visible", "enabled", "checked"}, tail \in {<<>>, <<"#a">>}}
            \cup {<<v, s>> \o tail :
                    v \in {"window", "dialog", "trace", "state"},
                    s \in {"new", "accept", "dismiss", "start", "stop", "save", "load"},
                    tail \in {<<>>, <<"x">>}}
            \cup {<<"find">> \o pos \o fl : pos \in FindPositionals, fl \in FindFlags}
            \cup {<<"network", "route">> \o pos \o fl :
                    pos \in {<<>>, <<"**/api/*">>}, fl \in RouteFlags}
            \cup {<<"network", "requests">> \o fl : fl \in RequestsFlags}
            \cup {<<"network", "unroute">>, <<"network", "unroute", "**/api/*">>}
            \cup {<<v>> : v \in {"open", "goto", "navigate"}}
            \cup {<<v, tg>> : v \in {"open", "goto", "navigate"}, tg \in Targets}
            \cup {<<"wait", n>> : n \in NumberTokens}
            \cup {<<"scroll", d>> : d \in {"up", "down"}}
            \cup {<<"scroll", "up", n>> : n \in NumberTokens}
            \cup {<<"mouse", "wheel", n>> : n \in NumberTokens}
            \cup {<<"mouse", "wheel", "10", n>> : n \in NumberTokens}
            \cup {<<"tab", "close", n>> : n \in NumberTokens}
            \cup {<<"tab", n>> : n \in NumberTokens}
            \cup {<<"snapshot", d, n>> : d \in {"-d", "--depth"}, n \in NumberTokens}
            \cup {<<"storage", ty>> \o tail : ty \in {"local", "session"}, tail \in KeyValueTails}
            \cup {<<"cookies">> \o tail : tail \in KeyValueTails}
    IN  { [fn |-> "parse_command", in |-> [args |-> a, id |-> "r424242"]] : a \in CommandLines }
        \cup
        { [fn |-> "connect_tcp", in |-> [session |-> s, port_file |-> f]] :
              s \in {"default", "work"}, f \in PortFiles }
        \cup
        { [fn |-> "locate_daemon", in |-> [home |-> h, existing |-> fs]] :
              h \in {Unset, "/opt/ab", "/opt/ab/"}, fs \in DaemonFileChoices }
        \cup
        { [fn |-> "get_socket_dir", in |-> e] : e \in Environments }
        \cup
        { [fn |-> "request_at", in |-> [site |-> s, cid |-> c]] :
              s \in {"launch_auto", "launch_cdp", "launch_provider", "launch_local",
                     "confirm", "deny"},
              c \in {"", "c1"} }
        \cup
        { [fn |-> "apply_daemon_env", in |-> [session |-> s, opts |-> DaemonOptionsWith(g, b)]] :
              s \in {"default", "work"}, g \in GivenOptions, b \in BOOLEAN }

\* One call of one function, no invocation running.
FnInit ==
    /\ Given({}, Base)
    /\ pidFile = "none" /\ sockFile = "none" /\ dirExists = FALSE
    /\ wstate = [w \in Workers |-> "none"]
    /\ Fresh({})
    /\ call \in Calls
    /\ result = NoResult

\* The function called returns.
FnNext ==
    \/ Return("get_socket_dir", GetSocketDir(call.in))
    \/ Return("apply_daemon_env", ApplyDaemonEnv(call.in.session, call.in.opts))
    \/ Return("locate_daemon", LocateDaemon(call.in.home, call.in.existing))
    \/ Return("parse_command", ParseCommand(call.in.args, call.in.id))
    \/ Return("connect_tcp", ConnectTcp(call.in.session, call.in.port_file))
    \/ Return("request_at", RequestAt(call.in.site, call.in.cid))

FnSpec == FnInit /\ [][FnNext]_vars

\* Two invocations for one session start together.  No worker is running:
\* there never was one, or one died and left its marker and its socket file.
RaceInit ==
    /\ Given(Procs, Base)
    /\ InitEnv
    /\ dirExists
    /\ wstate["w0"] \in {"none", "dead"}
    /\ pidFile = (IF wstate["w0"] = "dead" THEN "w0" ELSE "none")
    /\ sockFile = pidFile
    /\ Fresh(Procs)
    /\ call = NoCall
    /\ result = NoResult

\* The two invocations up to the return of ensure_daemon, and the start of
\* the workers they spawn.
RaceNext ==
    \/ \E p \in Procs : MainStart(p)
    \/ \E p \in Procs : EnsureProbe1(p)
    \/ \E p \in Procs : EnsureProbe2(p)
    \/ \E p \in Procs : EnsureRmPid(p)
    \/ \E p \in Procs : EnsureRmSock(p)
    \/ \E p \in Procs : EnsureMkdir(p)
    \/ \E p \in Procs : EnsurePreflight(p)
    \/ \E p \in Procs : EnsureLocate(p)
    \/ \E p \in Procs : EnsureSpawn(p)
    \/ \E p \in Procs : EnsurePoll(p)
    \/ \E w \in Workers : WorkerBind(w)

RaceSpec == RaceInit /\ [][RaceNext]_vars

(***************************************************************************)
(* main with launch options and with interactive confirmation              *)
(***************************************************************************)
\* One invocation of main that finds the session's worker running, with
\* options that call for launch requests, or with --confirm-interactive
\* and what its standard input is and holds.
MainInit ==
    LET launch ==
            { [DefaultFlags EXCEPT !.auto_connect = TRUE, !.local = TRUE],
              [DefaultFlags EXCEPT !.cdp = "port", !.local = TRUE],
              [DefaultFlags EXCEPT !.provider = TRUE] }
        answers ==
            { [tty |-> TRUE, read_ok |-> TRUE, line |-> " Yes\n"],
              [tty |-> TRUE, read_ok |-> TRUE, line |-> "n\n"],
              [tty |-> TRUE, read_ok |-> FALSE, line |-> ""],
              [tty |-> FALSE, read_ok |-> TRUE, line |-> "y\n"] }
        scenarios ==
            { [Base EXCEPT !.flags = f] : f \in launch }
            \cup { [Base EXCEPT !.flags = [DefaultFlags EXCEPT !.confirm_interactive = TRUE],
                                 !.stdin = in] : in \in answers }
    IN  /\ \E sc \in scenarios : Given(SoloProcs, sc)
        /\ InitEnv
        /\ dirExists /\ pidFile = "w0" /\ sockFile = "w0" /\ wstate["w0"] = "listening"
        /\ Fresh(SoloProcs)
        /\ call = NoCall
        /\ result = NoResult

\* main, ensure_daemon, send_command and the workers; AgentBrowser::run is
\* not called.
MainNext ==
    \/ \E p \in Procs : MainStart(p)
    \/ \E p \in Procs : EnsureProbe1(p)
    \/ \E p \in Procs : EnsureProbe2(p)
    \/ \E p \in Procs : EnsureRmPid(p)
    \/ \E p \in Procs : EnsureRmSock(p)
    \/ \E p \in Procs : EnsureMkdir(p)
    \/ \E p \in Procs : EnsurePreflight(p)
    \/ \E p \in Procs : EnsureLocate(p)
    \/ \E p \in Procs : EnsureSpawn(p)
    \/ \E p \in Procs : EnsurePoll(p)
    \/ \E p \in Procs : MainAfterEnsure(p)
    \/ \E p \in Procs : SendAttempt(p)
    \/ \E p \in Procs : MainAfterSend(p)
    \/ \E w \in Workers : WorkerBind(w)
    \/ \E w \in Workers : WorkerStop(w)
    \/ \E w \in Workers : WorkerExit(w)
    \/ \E w \in Workers : WorkerCrash(w)

MainSpec == MainInit /\ [][MainNext]_vars

(***************************************************************************)
(* Properties                                                              *)
(***************************************************************************)
Has(seq, x) == \E i \in 1..Len(seq) : seq[i] = x

\* Every x-entry of seq has a y-entry somewhere before it.
Preceded(seq, x, y) ==
    \A j \in 1..Len(seq) : seq[j] = x => \E i \in 1..(j - 1) : seq[i] = y

\* ensure_daemon has returned "a worker was already running".
AlreadyRunning(p) == edRet[p].ok /\ edRet[p].already_running

\* The positions of ensure_daemon after its probes: clean-up, pre-flight,
\* spawn, readiness polling, return.
PastProbes ==
    {"ed_rm_pid", "ed_rm_sock", "ed_mkdir", "ed_preflight", "ed_locate",
     "ed_spawn", "ed_poll", "ed_done"}

\* The positions after both removals of cleanup_stale_files.
PastCleanup == PastProbes \ {"ed_rm_pid", "ed_rm_sock"}

\* Where it has got past them, invocation p attempted both removals first,
\* the marker then the socket file; it spawned only after the write test;
\* and it returned success only by having spawned a worker.
CleanedThenSpawned(p) ==
    /\ pc[p] \in PastProbes
    /\ pc[p] /= "ed_rm_pid" => Len(log[p]) >= 1 /\ log[p][1] = "rm_pid"
    /\ pc[p] \in PastCleanup => Len(log[p]) >= 2 /\ log[p][2] = "rm_sock"
    /\ Preceded(log[p], "spawn", "write_test")
    /\ pc[p] = "ed_done" /\ edRet[p].ok =>
          Has(log[p], "spawn") /\ wstate[WorkerOf(p)] /= "none"

\* C1: when the marker names a live worker and the connection succeeds at
\* the first probe and again at the re-check, ensure_daemon returns
\* already_running = true, and an invocation that got that answer has
\* spawned no worker and has removed or created no artifact of the session.
C1_AlreadyRunningTouchesNothing ==
    \A p \in Procs :
        /\ probe1[p] = "positive" /\ probe2[p] = "positive" =>
              pc[p] = "ed_done" /\ edRet[p] = Ok(TRUE)
        /\ AlreadyRunning(p) =>
              log[p] = <<>> /\ wstate[WorkerOf(p)] = "none"

C1_BothProbesPositive ==
    \E p \in Procs :
        /\ probe1[p] = "positive" /\ probe2[p] = "positive"
        /\ pc[p] = "ed_done" /\ AlreadyRunning(p)

\* C2: when the first probe meets a marker whose endpoint accepts no
\* connection, ensure_daemon never returns already_running = true: it is on
\* the path that removes the marker and the socket file, runs the
\* pre-flight checks and spawns, and it succeeds only by spawning a worker.
C2_StaleMarkerNeverAlreadyRunning ==
    \A p \in Procs :
        probe1[p] = "stale" =>
            /\ ~AlreadyRunning(p)
            /\ probe2[p] = "none"
            /\ CleanedThenSpawned(p)

C2_StaleMarkerRespawned ==
    \E p \in Procs :
        /\ probe1[p] = "stale"
        /\ pc[p] = "ed_done" /\ edRet[p] = Ok(FALSE)
        /\ Has(log[p], "spawn")

\* C3: ensure_daemon answers already_running = true only when the first
\* probe was positive and the connection made after the 150 ms sleep
\* succeeded too; when that re-check fails, the invocation goes through the
\* clean-up and a fresh spawn like one whose first probe was negative.
C3_RecheckDecides ==
    \A p \in Procs :
        /\ pc[p] = "ed_done" /\ AlreadyRunning(p) =>
              probe1[p] = "positive" /\ probe2[p] = "positive" /\ waited[p] = 150
        /\ probe2[p] /= "none" => probe1[p] = "positive" /\ waited[p] >= 150
        /\ probe1[p] = "positive" /\ probe2[p] \in {"stale", "negative"} =>
              ~AlreadyRunning(p) /\ CleanedThenSpawned(p)

C3_RecheckFailedRespawned ==
    \E p \in Procs :
        /\ probe1[p] = "positive" /\ probe2[p] \in {"stale", "negative"}
        /\ pc[p] = "ed_done" /\ edRet[p] = Ok(FALSE)
        /\ Has(log[p], "spawn")

\* The failures the retry rule is documented for: would-block / temporarily
\* unavailable, end of file or empty response, connection reset, broken
\* pipe, socket not found, connection refused.
DocumentedTransient ==
    {"EAGAIN", "EMPTY", "TRUNCATED", "ECONNRESET", "EPIPE", "ENOENT", "ECONNREFUSED"}

\* C4: send_command makes a further attempt if and only if the attempt
\* before failed with one of the documented transient failures; any other
\* failure ends the call at once and is returned unchanged.
C4_RetriesOnlyDocumentedTransient ==
    \A p \in Procs :
        /\ pc[p] = "send" /\ tries[p] > 0 =>
              lastTry[p].res = "err" /\ lastTry[p].err.kind \in DocumentedTransient
        /\ lastTry[p].res = "err" /\ lastTry[p].err.kind \in DocumentedTransient
              /\ tries[p] < 5 => pc[p] = "send"
        /\ lastTry[p].res = "err" /\ lastTry[p].err.kind \notin DocumentedTransient =>
              pc[p] /= "send" /\ sendRet[p] = SendErr(lastTry[p].err.text)

\* C4, the case: connect failed with ENOTDIR, "Not a directory (os error
\* 20)", and send_command is about to make another attempt.
C4_NotADirectoryRetried ==
    \E p \in Procs :
        /\ pc[p] = "send" /\ tries[p] = 1
        /\ lastTry[p].err = Prefixed("Failed to connect: ", ENOTDIR)
        /\ lastError[p] = "Failed to connect: Not a directory (os error 20)"

\* C5: a send_command call makes at most 5 attempts, whatever the failures;
\* it is still running only with fewer than 5 attempts behind it, none of
\* which gave a response, and an attempt that gave a response ended the
\* call with that response.  The sleeps of one call add up to at most
\* 200 + 400 + 600 + 800 ms.
C5_AtMostFiveAttempts ==
    \A p \in Procs :
        /\ tries[p] <= 5
        /\ pc[p] = "send" => tries[p] < 5 /\ lastTry[p].res /= "ok"
        /\ lastTry[p].res = "ok" =>
              pc[p] /= "send" /\ sendRet[p] = SendOk(lastTry[p].resp)
        /\ slept[p] <= 2000

C5_FifthAttemptFailed ==
    \E p \in Procs :
        /\ tries[p] = 5 /\ pc[p] = "sent"
        /\ ~sendRet[p].ok /\ slept[p] = 2000

\* C6: once ensure_daemon has returned an error, the invocation calls
\* send_command never: it has no attempt and no completed call, and it ends
\* with a failure.
C6_EnsureErrorNoSend ==
    \A p \in Procs :
        edRet[p] /= NoRet /\ ~edRet[p].ok =>
            /\ pc[p] \in {"ed_done", "exit"}
            /\ site[p] = "none" /\ tries[p] = 0 /\ calls[p] = <<>>
            /\ pc[p] = "exit" => exitCode[p] = 1

C6_EnsureErrorExited ==
    \E p \in Procs :
        /\ edRet[p] /= NoRet /\ ~edRet[p].ok
        /\ pc[p] = "exit" /\ exitCode[p] = 1

\* The command lines the parser rejects: main's parse error, and for
\* AgentBrowser::run also the command that splits into no token.
Rejected(p) ==
    \/ caller[p] = "main" /\ cmdKind[p] = "bad"
    \/ caller[p] = "lib" /\ cmdKind[p] \in {"bad", "empty"}

\* C7: an invocation whose command line the parser rejects ends with a
\* failure and has neither probed, nor removed or created an artifact, nor
\* spawned a worker, nor made any attempt to send.
C7_ParseErrorTouchesNothing ==
    \A p \in Procs :
        Rejected(p) /\ pc[p] /= "start" =>
            /\ pc[p] = "exit" /\ exitCode[p] = 1
            /\ probe1[p] = "none" /\ edRet[p] = NoRet
            /\ log[p] = <<>> /\ wstate[WorkerOf(p)] = "none"
            /\ site[p] = "none" /\ tries[p] = 0 /\ calls[p] = <<>>

C7_ParseErrorExited ==
    \E p \in Procs :
        /\ caller[p] = "main" /\ cmdKind[p] = "bad"
        /\ pc[p] = "exit" /\ exitCode[p] = 1

\* C8: after a spawn ensure_daemon makes at most 50 readiness probes, with
\* a 100 ms sleep after each failed one; the first probe that succeeds ends
\* the call with already_running = false, and the call ends with the
\* "failed to start" error, which names the socket path, exactly when 50
\* probes have failed.
C8_FiftyReadinessProbes ==
    \A p \in Procs :
        /\ polls[p] + pollOk[p] <= 50 /\ pollOk[p] <= 1
        /\ pc[p] = "ed_poll" => polls[p] < 50 /\ pollOk[p] = 0
        /\ probe2[p] = "none" => waited[p] = 100 * polls[p]
        /\ pollOk[p] = 1 => pc[p] = "ed_done" /\ edRet[p] = Ok(FALSE)
        /\ pc[p] = "ed_done" /\ edRet[p] = Ok(FALSE) => pollOk[p] = 1
        /\ polls[p] = 50 =>
              /\ pc[p] = "ed_done" /\ ~edRet[p].ok
              /\ StartsWith(edRet[p].err, "Daemon failed to start")
              /\ Contains(edRet[p].err, SocketPath)
        /\ pc[p] = "ed_done" /\ Contains(edRet[p].err, "Daemon failed to start") =>
              polls[p] = 50 /\ pollOk[p] = 0

C8_FiftyProbesFailed ==
    \E p \in Procs :
        /\ polls[p] = 50 /\ pc[p] = "ed_done"
        /\ edRet[p] = Fail(StartTimeoutError)

\* C9: every spawn comes after the two removals, the marker's and then the
\* socket file's; an invocation whose probes did not end in "already
\* running" made both removals whatever it found, and a removal that failed
\* did not stop it.
C9_CleanupBeforeSpawn ==
    \A p \in Procs :
        /\ Preceded(log[p], "spawn", "rm_pid") /\ Preceded(log[p], "spawn", "rm_sock")
        /\ pc[p] = "ed_rm_sock" => log[p] = <<"rm_pid">>
        /\ pc[p] \in PastCleanup /\ ~AlreadyRunning(p) =>
              Len(log[p]) >= 2 /\ log[p][1] = "rm_pid" /\ log[p][2] = "rm_sock"

\* C9, the case: the marker could not be removed (an unparsable marker is
\* still there) and the worker was spawned all the same.
C9_SpawnedAfterFailedRemoval ==
    \E p \in Procs :
        /\ pidFile = "garbage"
        /\ pc[p] = "ed_poll" /\ log[p][Len(log[p])] = "spawn"

\* ensure_daemon returned the error of the socket path length check, stating
\* the path's length and the limit.
RejectedTooLong(p) ==
    /\ ~edRet[p].ok
    /\ StartsWith(edRet[p].err, "Session name '" \o session \o "' is too long")
    /\ Contains(edRet[p].err,
                "Socket path would be " \o ToString(Len(SocketPath)) \o " bytes (max 103)")

FailedTooLong(p) == pc[p] \in {"ed_done", "exit"} /\ edRet[p] = Fail(TooLongError)

\* main ended the invocation for an invalid session name.
FailedBadName(p) ==
    /\ caller[p] = "main" /\ flags[p].bad_session_name
    /\ cmdKind[p] = "action" /\ pc[p] = "exit"

\* C11: an invocation that failed because its session name is invalid or
\* its socket path is too long has created no artifact directory, has
\* written nothing into it and has spawned no worker.  (That it removed no
\* marker and no socket file is part of the claim too; the formula leaves it
\* out, a removal of a file that was not there being no removal.)
C11_ValidationBeforeIO ==
    \A p \in Procs :
        FailedBadName(p) \/ FailedTooLong(p) =>
            /\ ~Has(log[p], "mkdir") /\ ~Has(log[p], "write_test")
            /\ ~Has(log[p], "spawn") /\ wstate[WorkerOf(p)] = "none"

\* C11, the case: the path was refused as too long after the invocation
\* had run the clean-up and created the socket directory.
C11_TooLongAfterCleanupAndMkdir ==
    \E p \in Procs :
        /\ pc[p] = "ed_done" /\ edRet[p] = Fail(TooLongError)
        /\ log[p] = <<"rm_pid", "rm_sock", "mkdir">> /\ dirExists

\* The three pre-flight errors, by their texts.
FailedMkdir(p) == StartsWith(edRet[p].err, "Failed to create socket directory: ")

FailedLength(p) ==
    StartsWith(edRet[p].err, "Session name '") /\ Contains(edRet[p].err, "is too long")

FailedWritable(p) ==
    StartsWith(edRet[p].err, "Socket directory '") /\ Contains(edRet[p].err, "is not writable")

\* C12: the pre-flight checks run in the order directory, length, write
\* test.  A failed directory creation ends the call with nothing created or
\* written; the length error is returned only with the directory there and
\* nothing written; the write test is made, and its error returned, only
\* for a path within the limit; the three errors are distinct; and the
\* worker is located and spawned only after all three passed.
C12_PreflightInOrder ==
    \A p \in Procs :
        /\ FailedMkdir(p) =>
              /\ ~dirExists /\ ~FailedLength(p) /\ ~FailedWritable(p)
              /\ ~Has(log[p], "mkdir") /\ ~Has(log[p], "write_test")
        /\ FailedLength(p) =>
              /\ dirExists /\ Len(SocketPath) > 103 /\ ~FailedWritable(p)
              /\ ~Has(log[p], "write_test")
        /\ FailedWritable(p) =>
              /\ dirExists /\ Len(SocketPath) <= 103
              /\ ~Has(log[p], "write_test")
        /\ Has(log[p], "write_test") => dirExists /\ Len(SocketPath) <= 103
        /\ FailedMkdir(p) \/ FailedLength(p) \/ FailedWritable(p) =>
              /\ pc[p] \in {"ed_done", "exit"}
              /\ ~Has(log[p], "spawn") /\ wstate[WorkerOf(p)] = "none"
        /\ pc[p] \in {"ed_locate", "ed_spawn", "ed_poll"} =>
              log[p][Len(log[p]) - (IF pc[p] = "ed_locate" THEN 0
                                    ELSE IF pc[p] = "ed_spawn" THEN 1 ELSE 2)]
                  = "write_test"

C12_NotWritableAtTheLimit ==
    \E p \in Procs :
        /\ pc[p] = "ed_done" /\ edRet[p] = Fail(NotWritableError)
        /\ Len(SocketPath) = 103 /\ Has(log[p], "mkdir")

\* C13: an attempt that read a well-formed response with success = false
\* ends the send_command call: the call returns that response, with its
\* error string as received, and makes no further attempt, also when the
\* error string reads like a transient failure.
C13_FailureResponsePassedThrough ==
    \A p \in Procs :
        lastTry[p].res = "ok" /\ ~lastTry[p].resp.success =>
            /\ pc[p] /= "send"
            /\ sendRet[p].ok /\ sendRet[p].resp = lastTry[p].resp
            /\ sendRet[p].resp.error = lastTry[p].resp.error
            /\ calls[p][Len(calls[p])] = [site |-> site[p], ok |-> TRUE]

C13_EofInErrorNotRetried ==
    \E p \in Procs :
        /\ pc[p] = "sent" /\ tries[p] = 1
        /\ lastTry[p].res = "ok" /\ ~lastTry[p].resp.success
        /\ IsTransientError(lastTry[p].resp.error)
        /\ sendRet[p].resp.error = "Unexpected EOF in script"

\* C14: an attempt that read a non-empty line that is no Response, be it
\* malformed or cut short, ends the send_command call: the call returns
\* that error as it is and makes no further attempt.
C14_BadLineNotRetried ==
    \A p \in Procs :
        lastTry[p].res = "err" /\ lastTry[p].err.kind \in {"MALFORMED", "TRUNCATED"} =>
            /\ pc[p] /= "send"
            /\ sendRet[p] = SendErr(lastTry[p].err.text)

\* C14, the case: the response line was cut short, the request having been
\* written in full, and send_command is about to send the request again.
C14_TruncatedLineRetried ==
    \E p \in Procs :
        /\ pc[p] = "send" /\ tries[p] = 1
        /\ lastTry[p].err = Prefixed("Invalid response: ", TRUNCATED)
        /\ lastTry[p].delivered
        /\ lastError[p] = "Invalid response: EOF while parsing an object at line 1 column 15"

\* C14, the malformed line alone: it is returned without a retry.
C14_MalformedLineNotRetried ==
    \A p \in Procs :
        lastTry[p].res = "err" /\ lastTry[p].err.kind = "MALFORMED" =>
            /\ pc[p] /= "send"
            /\ sendRet[p] = SendErr(lastTry[p].err.text)

\* The retries a call has performed: its attempts but the first.
RetriesPerformed(p) == tries[p] - 1

\* C15: a send_command call whose attempts all failed with a transient
\* error returns the last attempt's error text followed by the number of
\* retries that were performed.
C15_ReportsRetriesPerformed ==
    \A p \in Procs :
        pc[p] = "sent" /\ lastTry[p].res = "err" /\ IsTransientError(lastTry[p].err.text) =>
            sendRet[p] = SendErr(lastTry[p].err.text \o " (after "
                                 \o ToString(RetriesPerformed(p))
                                 \o " retries - daemon may be busy or unresponsive)")

\* C15, the case: five attempts, that is four retries, and the error
\* returned says "after 5 retries".
C15_FourRetriesReportedAsFive ==
    \E p \in Procs :
        /\ pc[p] = "sent" /\ tries[p] = 5 /\ RetriesPerformed(p) = 4
        /\ slept[p] = 200 + 400 + 600 + 800
        /\ ~sendRet[p].ok
        /\ StartsWith(sendRet[p].err, lastTry[p].err.text \o " (after 5 retries")

\* The sleeps of a call that has made n attempts, added up: none before the
\* first attempt, k * 200 ms before the attempt with index k.
SleepsBefore(n) ==
    CASE n <= 1 -> 0
      [] n = 2 -> 200
      [] n = 3 -> 200 + 400
      [] n = 4 -> 200 + 400 + 600
      [] OTHER -> 200 + 400 + 600 + 800

\* C16: the back-off is linear: at every moment of a send_command call the
\* time it has slept is the sum of k * 200 ms over the attempts with index
\* k = 1.. made so far, nothing for the first attempt, and at most 2000 ms.
C16_LinearBackoff ==
    \A p \in Procs :
        /\ slept[p] = SleepsBefore(tries[p])
        /\ slept[p] <= 2000

C16_SleptBeforeFourthAttempt ==
    \E p \in Procs :
        /\ pc[p] = "send" /\ tries[p] = 4
        /\ slept[p] = 1200

\* What a worker that reads one line gets: the bytes before the first
\* newline.
RECURSIVE ReadLine(_)
ReadLine(bytes) ==
    IF bytes = "" \/ SubSeq(bytes, 1, 1) = "\n" THEN ""
    ELSE SubSeq(bytes, 1, 1) \o ReadLine(SubSeq(bytes, 2, Len(bytes)))

RECURSIVE Newlines(_)
Newlines(bytes) ==
    IF bytes = "" THEN 0
    ELSE (IF SubSeq(bytes, 1, 1) = "\n" THEN 1 ELSE 0)
         + Newlines(SubSeq(bytes, 2, Len(bytes)))

\* C17: every attempt opens one connection of its own and writes at most
\* one request on it.  The bytes of a request written in full are its JSON
\* serialization and one newline, the only newline among them, so that the
\* line a worker reads is the serialization byte for byte; the attempt then
\* reads one line and no more, and it reads none before the request is
\* written in full.
C17_OneRequestPerConnection ==
    \A p \in Procs :
        LET w == wire[p]
            \* a follow-up carries the confirmation id of the response that
            \* asked for it; sendRet holds that response until the follow-up
            \* returns
            cid == IF site[p] \in Answers THEN "c1" ELSE ""
            json == ToJson(RequestAt(site[p], cid))
        IN  /\ pc[p] = "send" /\ site[p] \in Answers => sendRet[p].resp.cid = cid
            /\ lastTry[p].res /= "none" => w.connects = 1
            /\ w.writes <= 1 /\ w.reads <= w.writes
            /\ w.reads = 1 =>
                  /\ w.bytes = json \o "\n"
                  /\ Newlines(w.bytes) = 1
                  /\ ReadLine(w.bytes) = json
            /\ w.reads = 0 => w.bytes = "" \/ Len(w.bytes) < Len(json)
            /\ lastTry[p].res = "ok" => w.reads = 1
            /\ lastTry[p].delivered <=> w.reads = 1

C17_ActionRequestRoundTrip ==
    \E p \in Procs :
        /\ site[p] = "action" /\ lastTry[p].res = "ok"
        /\ wire[p] = [connects |-> 1, writes |-> 1, reads |-> 1,
                      bytes |-> "{\"action\":\"fill\",\"id\":\"r1\",\"selector\":\"#q\",\"value\":\"a\\\"b\\\\c\\nd\"}\n"]

\* The invocation met a failure: its command line was rejected, its session
\* name was invalid, ensure_daemon returned an error, a send_command call
\* returned an error, or the last response it got has success = false.
MetFailure(p) ==
    \/ Rejected(p)
    \/ caller[p] = "main" /\ cmdKind[p] = "action" /\ flags[p].bad_session_name
    \/ edRet[p] /= NoRet /\ ~edRet[p].ok
    \/ \E i \in 1..Len(calls[p]) : ~calls[p][i].ok
    \/ calls[p] /= <<>> /\ sendRet[p].ok /\ ~sendRet[p].resp.success

\* C18: no invocation that met a failure ends with status 0 (for
\* AgentBrowser::run: with Ok), on any path.
C18_FailureNeverSuccess ==
    \A p \in Procs :
        pc[p] = "exit" /\ MetFailure(p) => exitCode[p] /= 0

\* C18, the case: the user approved the action, the worker answered the
\* confirm request with success = false, and main ended with status 0.
C18_FailedConfirmExitsZero ==
    \E p \in Procs :
        /\ pc[p] = "exit" /\ exitCode[p] = 0
        /\ site[p] = "confirm" /\ calls[p][Len(calls[p])] = [site |-> "confirm", ok |-> TRUE]
        /\ sendRet[p].ok /\ ~sendRet[p].resp.success
        /\ sendRet[p].resp.error = "Element not found"

\* C18, every other path: but for the answer to a confirm request, a
\* failure ends the invocation with a status other than 0.
C18_FailureNeverSuccessButConfirm ==
    \A p \in Procs :
        pc[p] = "exit" /\ MetFailure(p) /\ site[p] /= "confirm" => exitCode[p] /= 0

\* The invocation asked for a launch-time option other than its default: on
\* the command line, or otherwise (--headed, an option taken from the
\* environment).
LaunchOptionRequested(f) == f.cli_launch \/ f.local

\* main is past the place where it warns.
PastWarning(p) == caller[p] = "main" /\ pc[p] \in {"send", "sent", "exit"}

\* C19: when ensure_daemon answered already_running = true and the
\* invocation asked for a launch-time option, main has printed the warning
\* that the option is ignored, in every output mode, and has not failed for
\* it: it went on to its requests.
C19_IgnoredOptionsWarned ==
    \A p \in Procs :
        PastWarning(p) /\ AlreadyRunning(p) /\ LaunchOptionRequested(flags[p]) =>
            /\ warned[p]
            /\ site[p] /= "none"

\* C19, the case: a launch option on the command line together with --json,
\* a worker already running, and main sends its requests without having
\* warned.
C19_JsonModeNotWarned ==
    \E p \in Procs :
        /\ flags[p].cli_launch /\ flags[p].json
        /\ AlreadyRunning(p) /\ pc[p] = "send"
        /\ ~warned[p]

\* C19, what does hold: for an option given on the command line, outside
\* JSON mode, the warning is printed and the invocation goes on; and the
\* warning is printed in no other case.
C19_WarnedOutsideJson ==
    \A p \in Procs :
        /\ PastWarning(p) /\ AlreadyRunning(p) /\ flags[p].cli_launch /\ ~flags[p].json =>
              warned[p] /\ site[p] /= "none"
        /\ warned[p] => AlreadyRunning(p) /\ flags[p].cli_launch /\ ~flags[p].json

\* The call sites whose request is a launch request carrying options.
LaunchRequestSites == {"launch_auto", "launch_cdp", "launch_provider", "launch_local"}

\* C20: an invocation that found the worker already running does nothing to
\* it with its own launch options: it spawns no worker, touches no
\* artifact, and sends no launch request.
C20_RunningWorkerKeepsItsOptions ==
    \A p \in Procs :
        AlreadyRunning(p) =>
            /\ log[p] = <<>> /\ wstate[WorkerOf(p)] = "none"
            /\ site[p] \notin LaunchRequestSites
            /\ \A i \in 1..Len(calls[p]) : calls[p][i].site \notin LaunchRequestSites

\* C20, the case: the worker was already running, and the launch request
\* with the invocation's options was written to it and answered by it.
C20_LaunchSentToRunningWorker ==
    \E p \in Procs :
        /\ AlreadyRunning(p) /\ flags[p].local
        /\ site[p] = "launch_local" /\ pc[p] = "sent"
        /\ lastTry[p].res = "ok" /\ lastTry[p].delivered
        /\ wire[p].bytes = RequestLine(RequestAt("launch_local", ""))
        /\ sockFile = "w0" /\ wstate["w0"] = "listening"

\* C20, what does hold: the supervisor neither respawns the running worker
\* nor touches its artifacts.
C20_RunningWorkerNotRespawned ==
    \A p \in Procs :
        AlreadyRunning(p) => log[p] = <<>> /\ wstate[WorkerOf(p)] = "none"

\* The result of the call of fn under way, when it has returned.
Returned(fn) == call.fn = fn /\ result.fn = fn

\* The environment e with every variable that is set to the empty string
\* unset instead.
EmptyAsUnset(e) ==
    [e EXCEPT !.AGENT_BROWSER_SOCKET_DIR = IF @ = "" THEN Unset ELSE @,
              !.XDG_RUNTIME_DIR = IF @ = "" THEN Unset ELSE @,
              !.HOME = IF @ = "" THEN Unset ELSE @]

\* C25: get_socket_dir returns AGENT_BROWSER_SOCKET_DIR as it is when that
\* is not empty; else XDG_RUNTIME_DIR joined with "agent-browser" when that
\* is not empty; else the home directory joined with ".agent-browser" when
\* there is one; else the temp directory joined with "agent-browser".  In
\* every environment the result is the one of the environment in which the
\* variables set to the empty string are unset.
C25_FirstNonEmptyWins ==
    Returned("get_socket_dir") =>
        LET e == call.in
            n == EmptyAsUnset(e)
            home == IF n.HOME /= Unset THEN n.HOME ELSE n.passwd
        IN  /\ result.out =
                  (CASE n.AGENT_BROWSER_SOCKET_DIR /= Unset -> n.AGENT_BROWSER_SOCKET_DIR
                     [] n.AGENT_BROWSER_SOCKET_DIR = Unset /\ n.XDG_RUNTIME_DIR /= Unset ->
                          PathJoin(n.XDG_RUNTIME_DIR, "agent-browser")
                     [] n.AGENT_BROWSER_SOCKET_DIR = Unset /\ n.XDG_RUNTIME_DIR = Unset
                        /\ home /= Unset ->
                          PathJoin(home, ".agent-browser")
                     [] OTHER -> PathJoin(n.tmp, "agent-browser"))
            /\ result.out = GetSocketDir(n)
            /\ result.out \notin {"", "agent-browser", ".agent-browser"}

\* Both variables are set to the empty string and the home directory decides.
C25_BothEmptyHomeUsed ==
    /\ Returned("get_socket_dir")
    /\ call.in.AGENT_BROWSER_SOCKET_DIR = ""
    /\ call.in.XDG_RUNTIME_DIR = ""
    /\ call.in.HOME = "/home/user"
    /\ result.out = "/home/user/.agent-browser"

\* The variable apply_daemon_env sets for each option.
OptionVariable ==
    [headed |-> "AGENT_BROWSER_HEADED",
     executable_path |-> "AGENT_BROWSER_EXECUTABLE_PATH",
     extensions |-> "AGENT_BROWSER_EXTENSIONS",
     args |-> "AGENT_BROWSER_ARGS",
     user_agent |-> "AGENT_BROWSER_USER_AGENT",
     proxy |-> "AGENT_BROWSER_PROXY",
     proxy_bypass |-> "AGENT_BROWSER_PROXY_BYPASS",
     ignore_https_errors |-> "AGENT_BROWSER_IGNORE_HTTPS_ERRORS",
     allow_file_access |-> "AGENT_BROWSER_ALLOW_FILE_ACCESS",
     profile |-> "AGENT_BROWSER_PROFILE",
     state |-> "AGENT_BROWSER_STATE",
     provider |-> "AGENT_BROWSER_PROVIDER",
     device |-> "AGENT_BROWSER_IOS_DEVICE",
     session_name |-> "AGENT_BROWSER_SESSION_NAME",
     download_path |-> "AGENT_BROWSER_DOWNLOAD_PATH",
     allowed_domains |-> "AGENT_BROWSER_ALLOWED_DOMAINS",
     action_policy |-> "AGENT_BROWSER_ACTION_POLICY",
     confirm_actions |-> "AGENT_BROWSER_CONFIRM_ACTIONS"]

\* Option o of opts is not at its default: a flag that is on, a value or a
\* list that is present, an extension list that is not empty.
NonDefault(opts, o) ==
    IF o \in FlagOptions THEN opts[o]
    ELSE IF o = "extensions" THEN opts[o] /= <<>>
    ELSE opts[o] /= None

\* The values the added environment env gives the variable name.
ValuesOf(env, name) == {env[i][2] : i \in {j \in 1..Len(env) : env[j][1] = name}}

\* C23: the environment apply_daemon_env adds always has AGENT_BROWSER_DAEMON
\* = "1" and AGENT_BROWSER_SESSION = the session name; for each launch option
\* it has that option's variable if and only if the option is not at its
\* default, and it has no other variable and sets none twice.
C23_EnvMirrorsOptions ==
    Returned("apply_daemon_env") =>
        LET env == result.out
            opts == call.in.opts
        IN  /\ ValuesOf(env, "AGENT_BROWSER_DAEMON") = {"1"}
            /\ ValuesOf(env, "AGENT_BROWSER_SESSION") = {call.in.session}
            /\ \A o \in DaemonOptionNames :
                    ValuesOf(env, OptionVariable[o]) /= {} <=> NonDefault(opts, o)
            /\ \A i \in 1..Len(env) :
                    env[i][1] \in {"AGENT_BROWSER_DAEMON", "AGENT_BROWSER_SESSION"}
                                  \cup {OptionVariable[o] : o \in DaemonOptionNames}
            /\ \A i, j \in 1..Len(env) : env[i][1] = env[j][1] => i = j

\* Only --proxy and the allowed domains are given: the environment has the
\* two fixed variables and those two.
C23_ProxyAndDomainsOnly ==
    /\ Returned("apply_daemon_env")
    /\ call.in.opts.proxy = Some("v:proxy")
    /\ ~call.in.opts.headed
    /\ result.out =
          << <<"AGENT_BROWSER_DAEMON", "1">>, <<"AGENT_BROWSER_SESSION", "work">>,
             <<"AGENT_BROWSER_PROXY", "v:proxy">>,
             <<"AGENT_BROWSER_ALLOWED_DOMAINS", "a.com,b.org">> >>

\* The places daemon.js is looked for, most preferred first.
LocateOrder(home) ==
    (IF home = Unset THEN <<>> ELSE <<"/opt/ab/dist/daemon.js", "/opt/ab/daemon.js">>)
    \o <<"<exe_dir>/daemon.js", "<exe_dir>/../dist/daemon.js", "dist/daemon.js">>

\* C24: the worker program found is the first existing path in the order
\* AGENT_BROWSER_HOME/dist/daemon.js, AGENT_BROWSER_HOME/daemon.js, daemon.js
\* and ../dist/daemon.js beside the executable, dist/daemon.js; when none of
\* them exists the search fails with the "not found" error, which names
\* AGENT_BROWSER_HOME.
C24_FirstExistingWins ==
    Returned("locate_daemon") =>
        LET order == LocateOrder(call.in.home)
            there == {i \in 1..Len(order) : order[i] \in call.in.existing}
            d == result.out
        IN  /\ d.found <=> there /= {}
            /\ d.found =>
                  \E i \in there : d.path = order[i] /\ \A j \in there : i <= j
            /\ ~d.found =>
                  /\ d.err = NotFoundError
                  /\ StartsWith(d.err, "Daemon not found")
                  /\ Contains(d.err, "AGENT_BROWSER_HOME")

\* The override's second place wins over the executable's and the project's.
C24_HomeBeatsExecutable ==
    /\ Returned("locate_daemon")
    /\ call.in.home = "/opt/ab"
    /\ call.in.existing = {"/opt/ab/daemon.js", "<exe_dir>/daemon.js", "dist/daemon.js"}
    /\ result.out.path = "/opt/ab/daemon.js"

\* C24, within ensure_daemon: it launches the path the search found, and
\* returns the "not found" error without a spawn when the search found none.
C24_NotFoundSpawnsNothing ==
    \A p \in Procs :
        /\ Has(log[p], "spawn") =>
              Has(log[p], LocateDaemon(homeEnv[p], daemonFiles).path)
        /\ pc[p] = "ed_done" /\ edRet[p].err = NotFoundError =>
              /\ ~LocateDaemon(homeEnv[p], daemonFiles).found
              /\ ~Has(log[p], "spawn")
              /\ wstate[WorkerOf(p)] = "none"

\* C26: on the loopback-TCP platform connect dials a port that depends on
\* the session name alone and lies in 49152..65535: whatever the port file
\* holds, and also without one, the same port is dialled.
C26_PortFromNameAlone ==
    Returned("connect_tcp") =>
        /\ result.out.dialled
        /\ DecLeq("49152", result.out.port) /\ DecLeq(result.out.port, "65535")
        /\ \A f \in PortFiles :
               ConnectTcp(call.in.session, f).port = result.out.port

\* Without a port file connect dials nothing; with one it dials the port
\* the file holds, here one below the dynamic range.
C26_PortReadFromFile ==
    /\ Returned("connect_tcp")
    /\ call.in.port_file = Some(" 8080 ")
    /\ result.out.port = "8080"
    /\ ~ConnectTcp(call.in.session, None).dialled

\* The command line of the parse_command call that has returned.
ParsedLine(verbs) ==
    /\ Returned("parse_command")
    /\ call.in.args /= <<>>
    /\ call.in.args[1] \in verbs

\* The request the call returned has field k with value v.
Field(k, v) == result.out.some /\ k \in DOMAIN result.out.req /\ result.out.req[k] = v

NavigationVerbs == {"open", "goto", "navigate"}

\* C27: for open, goto and navigate with a target, the request's action is
\* "navigate"; its url is "https://" followed by the target when the target
\* has no scheme (no "://" in it), and the target itself when the target
\* starts with http:// or https://.
C27_SchemeNormalized ==
    ParsedLine(NavigationVerbs) /\ Len(call.in.args) >= 2 =>
        LET target == call.in.args[2]
        IN  /\ Field("action", JStr("navigate"))
            /\ ~Contains(target, "://") => Field("url", JStr("https://" \o target))
            /\ StartsWith(target, "http://") \/ StartsWith(target, "https://") =>
                  Field("url", JStr(target))

\* "open httpbin.org": the url of the request is "httpbin.org".
C27_HttpbinNotPrefixed ==
    /\ ParsedLine(NavigationVerbs)
    /\ call.in.args = <<"open", "httpbin.org">>
    /\ Field("url", JStr("httpbin.org"))

\* C28: "storage local|session set" without a key or without a value, and
\* "cookies set" without a name or without a value, fail to parse and yield
\* no request; a storage_set request has its key and its value, a
\* cookies_set request its name and its value, as the strings given, never
\* null and never left out.
C28_SetNeedsKeyAndValue ==
    Returned("parse_command") =>
        LET a == call.in.args
            r == result.out
        IN  /\ /\ Len(a) \in 3..4
               /\ a[1] = "storage" /\ a[2] \in {"local", "session"} /\ a[3] = "set"
               => r = NoRequest
            /\ Len(a) \in 2..3 /\ a[1] = "cookies" /\ a[2] = "set" => r = NoRequest
            /\ r.some /\ r.req["action"] = JStr("storage_set") =>
                  /\ Len(a) >= 5
                  /\ Field("key", JStr(a[4])) /\ Field("value", JStr(a[5]))
            /\ r.some /\ r.req["action"] = JStr("cookies_set") =>
                  /\ Len(a) >= 4
                  /\ Field("cookies[0].name", JStr(a[3]))
                  /\ Field("cookies[0].value", JStr(a[4]))

\* "storage local set k": no request.
C28_StorageSetWithoutValue ==
    /\ ParsedLine({"storage"})
    /\ call.in.args = <<"storage", "local", "set", "k">>
    /\ result.out = NoRequest

\* C29: "wait" with one argument yields a request with a numeric timeout and
\* no selector when the argument parses as an unsigned 64-bit integer, and a
\* request with the argument as selector and no timeout when it does not;
\* "wait" alone yields no request.
C29_TimeoutIffUnsigned ==
    ParsedLine({"wait"}) =>
        LET a == call.in.args
            n == ParseUnsigned(a[2], "18446744073709551615")
        IN  /\ Len(a) = 1 => result.out = NoRequest
            /\ Len(a) = 2 =>
                  /\ Field("action", JStr("wait"))
                  /\ n.ok <=> "timeout" \in DOMAIN result.out.req
                  /\ ~n.ok <=> "selector" \in DOMAIN result.out.req
                  /\ n.ok => Field("timeout", JNum(n.val))
                  /\ ~n.ok => Field("selector", JStr(a[2]))
                  /\ AllDigits(a[2]) /\ Len(a[2]) <= 19 => n.ok

\* One more than the largest u64 is waited for as a selector.
C29_OverflowIsSelector ==
    /\ ParsedLine({"wait"})
    /\ call.in.args = <<"wait", "18446744073709551616">>
    /\ Field("selector", JStr("18446744073709551616"))
    /\ "timeout" \notin DOMAIN result.out.req

\* An optional numeric token of the command line is there and is no i32.
InvalidOptional(a) ==
    \/ a[1] = "scroll" /\ Len(a) >= 3 /\ ~ParseI32(a[3]).ok
    \/ /\ a[1] = "mouse" /\ Len(a) >= 3 /\ a[2] = "wheel"
       /\ \E i \in 3..4 : i <= Len(a) /\ ~ParseI32(a[i]).ok
    \/ a[1] = "tab" /\ Len(a) >= 3 /\ a[2] = "close" /\ ~ParseI32(a[3]).ok
    \/ /\ a[1] = "snapshot" /\ Len(a) = 3 /\ a[2] \in {"-d", "--depth"}
       /\ ~ParseI32(a[3]).ok

\* C30: the default of an optional argument (scroll amount 300, wheel deltas
\* 100 and 0, no tab index, no snapshot depth) is applied when the token is
\* absent; a token that is there and is not a valid number yields no
\* request, never the default.
C30_InvalidNeverDefaulted ==
    ParsedLine({"scroll", "mouse", "tab", "snapshot"}) =>
        LET a == call.in.args
        IN  /\ InvalidOptional(a) => result.out = NoRequest
            /\ a[1] = "scroll" /\ Len(a) <= 2 => Field("amount", JNum("300"))
            /\ a = <<"mouse", "wheel">> => Field("deltaY", JNum("100")) /\ Field("deltaX", JNum("0"))
            /\ a = <<"tab", "close">> => Field("index", JNull)
            /\ a = <<"snapshot">> => result.out.some /\ "maxDepth" \notin DOMAIN result.out.req

\* "scroll up abc": a request with amount 300.
C30_InvalidAmountBecomes300 ==
    /\ ParsedLine({"scroll"})
    /\ call.in.args = <<"scroll", "up", "abc">>
    /\ Field("amount", JNum("300"))

\* C30, what does hold: with the token absent the default is applied.
C30_AbsentIsDefault ==
    ParsedLine({"scroll", "mouse", "tab", "snapshot"}) =>
        LET a == call.in.args
        IN  /\ a[1] = "scroll" /\ Len(a) <= 2 => Field("amount", JNum("300"))
            /\ a = <<"mouse", "wheel">> => Field("deltaY", JNum("100")) /\ Field("deltaX", JNum("0"))
            /\ a = <<"tab", "close">> => Field("index", JNull)
            /\ a = <<"snapshot">> => result.out.some /\ "maxDepth" \notin DOMAIN result.out.req

\* Invocation p has spawned its worker.
Spawned(p) == Has(log[p], "spawn") /\ wstate[WorkerOf(p)] /= "none"

\* C21: ensure_daemon takes no lock.  An invocation that found no running
\* worker at its probe and has come to the spawn step can spawn its worker
\* there, whatever the other invocation for the session has done: also when
\* that one has spawned a worker already.
C21_NoLockBeforeSpawn ==
    \A p \in Procs :
        pc[p] = "ed_spawn" =>
            /\ probe1[p] /= "positive" \/ probe2[p] /= "positive"
            /\ ENABLED (EnsureSpawn(p) /\ wstate'[WorkerOf(p)] = "starting")

\* Both invocations found no running worker at the probe, and each has
\* spawned a worker for the one session.
C21_TwoWorkersSpawned ==
    /\ \A p \in Procs : probe1[p] \in {"negative", "stale"} /\ Spawned(p)
    /\ wstate["w1"] \in Alive /\ wstate["w2"] \in Alive

\* C22: when both invocations have spawned a worker and the worker of one
\* of them exited because it could not bind the session's endpoint, the
\* ensure_daemon of that invocation does not return success.
C22_BindFailureIsFatal ==
    \A p \in Procs :
        /\ \A q \in Procs : Spawned(q)
        /\ wstate[WorkerOf(p)] = "failed"
        /\ pc[p] = "ed_done"
        => ~edRet[p].ok

\* The second invocation's worker failed to bind; its readiness probe was
\* answered by the first invocation's worker and ensure_daemon returned
\* success.
C22_SecondSucceedsOnFirstWorker ==
    /\ Spawned(1) /\ Spawned(2)
    /\ wstate["w1"] = "listening" /\ sockFile = "w1"
    /\ wstate["w2"] = "failed"
    /\ pc[2] = "ed_done" /\ edRet[2] = Ok(FALSE)
    /\ pollOk[2] = 1

\* The sub-verbs parse_command knows of each multi-level verb.
SubVerbs ==
    [get |-> {"text", "html", "value", "attr", "url", "title", "count", "box"},
     is |-> {"visible", "enabled", "checked"},
     find |-> {"role", "text", "label", "placeholder", "alt", "title", "testid",
               "first", "last", "nth"},
     mouse |-> {"move", "down", "up", "wheel"},
     network |-> {"route", "unroute", "requests"},
     storage |-> {"local", "session"},
     cookies |-> {"get", "set", "clear"},
     tab |-> {"new", "list", "close"},
     window |-> {"new"},
     dialog |-> {"accept", "dismiss"},
     trace |-> {"start", "stop"},
     state |-> {"save", "load"}]

\* The second token of the command line a is no sub-verb of its verb (for
\* tab, a tab number counts as one).
UnknownSubVerb(a) ==
    /\ Len(a) >= 2
    /\ a[1] \in DOMAIN SubVerbs
    /\ a[2] \notin SubVerbs[a[1]]
    /\ ~(a[1] = "tab" /\ ParseI32(a[2]).ok)

\* C31: a command line that is empty, whose first token is no verb, or
\* whose second token is no sub-verb of its multi-level verb, is answered
\* with an error and never with a request.
C31_UnknownSubVerbRejected ==
    Returned("parse_command") =>
        LET a == call.in.args
        IN  (a = <<>> \/ a[1] = "frobnicate" \/ UnknownSubVerb(a)) => ~result.out.some

\* "tab frobnicate" is answered with the request that lists the tabs.
C31_UnknownTabSubVerbLists ==
    /\ Returned("parse_command")
    /\ call.in.args = <<"tab", "frobnicate">>
    /\ Field("action", JStr("tab_list"))

\* The tokens of rest before its first flag token.
Positionals(rest) ==
    IF \E i \in 1..Len(rest) : StartsWith(rest[i], "--")
    THEN SubSeq(rest, 1, (CHOOSE i \in 1..Len(rest) :
                            /\ StartsWith(rest[i], "--")
                            /\ \A j \in 1..(i - 1) : ~StartsWith(rest[j], "--")) - 1)
    ELSE rest

\* The fields of find, network route and network requests that flags set.
FlagFields == {"name", "exact", "abort", "body", "clear", "filter"}

\* The command line a is find, network route or network requests with
\* flag tokens after its positional tokens.
FlagsAfterPositionals(a) ==
    /\ Len(a) >= 2
    /\ a[1] = "find" \/ (a[1] = "network" /\ a[2] \in {"route", "requests"})
    /\ Positionals(a) /= a

\* C32: flag tokens after the positional tokens of find, network route and
\* network requests change only the fields the flags set: the outcome is a
\* request exactly when it is one without the flags, and every other field
\* of the request is as it is without them.
C32_FlagsLeavePositionals ==
    Returned("parse_command") /\ FlagsAfterPositionals(call.in.args) =>
        LET bare == ParseCommand(Positionals(call.in.args), call.in.id)
        IN  /\ result.out.some = bare.some
            /\ result.out.some =>
                 /\ DOMAIN result.out.req \ FlagFields = DOMAIN bare.req \ FlagFields
                 /\ \A k \in DOMAIN bare.req \ FlagFields : result.out.req[k] = bare.req[k]

\* "find role button --exact": the flag is taken for the subaction.
C32_FlagTakenAsSubaction ==
    /\ Returned("parse_command")
    /\ call.in.args = <<"find", "role", "button", "--exact">>
    /\ Field("subaction", JStr("--exact"))
    /\ Field("exact", JBool(TRUE))
    /\ ParseCommand(<<"find", "role", "button">>, call.in.id).req["subaction"] = JStr("click")

\* The request returned has the field k, here among the key/value pairs main
\* builds its requests of.
HasPair(k) == \E i \in 1..Len(result.out) : result.out[i][1] = k /\ result.out[i][2] /= ""

C35_RetryOnlyUndelivered ==
    \A p \in Procs :
        pc[p] = "send" /\ tries[p] > 0 => ~lastTry[p].delivered

\* C35, as the code has it: the loop of send_command goes on after an
\* attempt exactly when that attempt failed with an error of a transient
\* kind and fewer than 5 attempts are made, whether the request line was
\* written in full or not; a failed read or an empty or cut-short answer
\* after a full write is followed by another attempt, a response read is
\* followed by none.
C35_RetryFollowsErrorNotDelivery ==
    \A p \in Procs :
        LET o == lastTry[p]
            retried == {"ECONNREFUSED", "ENOENT", "ENOTDIR", "EPIPE", "EAGAIN",
                        "ECONNRESET", "EMPTY", "TRUNCATED"}
        IN  /\ pc[p] = "send" /\ tries[p] > 0 =>
                  o.res = "err" /\ o.err.kind \in retried /\ tries[p] < 5
            /\ o.res = "err" /\ o.delivered /\ o.err.kind /= "MALFORMED" /\ tries[p] < 5 =>
                  pc[p] = "send" /\ lastError[p] = o.err.text
            /\ o.res = "ok" => o.delivered /\ pc[p] /= "send"

\* The first attempt wrote the whole request line and failed at the read;
\* the second wrote it again and was answered.
C35_RequestWrittenTwice ==
    \E p \in Procs :
        /\ pc[p] = "sent" /\ tries[p] = 2
        /\ StartsWith(lastError[p], "Failed to read: ")
        /\ sendRet[p].ok
        /\ wire[p].writes = 1 /\ lastTry[p].delivered

\* C36: the two removals of cleanup_stale_files leave alone the socket file
\* and the marker of a worker that is accepting connections on the
\* session's endpoint.
C36_CleanupSparesLiveWorker ==
    [][\A p \in Procs :
          (pc[p] \in {"ed_rm_pid", "ed_rm_sock"} /\ pc'[p] /= pc[p] /\ Accepting) =>
              /\ sockFile' = sockFile
              /\ pidFile = sockFile => pidFile' = pidFile]_vars

\* The first probe found the worker's marker and was answered; the worker
\* is accepting still, and the clean-up has removed its marker and its
\* socket file.
C36_LiveWorkerCutOff ==
    \E p \in Procs :
        /\ pc[p] = "ed_mkdir"
        /\ probe1[p] = "positive"
        /\ wstate["w0"] = "listening"
        /\ pidFile = "none" /\ sockFile = "none"
        /\ log[p] = <<"rm_pid", "rm_sock">>

\* C40: an invocation of main that combines mutually exclusive options
\* exits with a status that is not zero, and it has spawned no worker and
\* has called send_command never.
C40_ExclusiveRejectedFirst ==
    \A p \in Procs :
        caller[p] = "main" /\ MutuallyExclusive(flags[p]) =>
            /\ ~Has(log[p], "spawn")
            /\ wstate[WorkerOf(p)] = "none"
            /\ pc[p] \notin {"send", "sent"} /\ calls[p] = <<>>
            /\ pc[p] = "exit" => exitCode[p] /= 0

\* --cdp with --provider was rejected with status 1 and no request was
\* sent, after ensure_daemon had spawned a worker.
C40_RejectedAfterSpawn ==
    \E p \in Procs :
        /\ caller[p] = "main" /\ MutuallyExclusive(flags[p])
        /\ pc[p] = "exit" /\ exitCode[p] = 1
        /\ edRet[p] = Ok(FALSE)
        /\ Has(log[p], "spawn")
        /\ calls[p] = <<>>

\* The launch request of call site s was sent, in its turn, and send_command
\* returned from it before the action request was begun.
LaunchedBefore(p, s) ==
    \E i \in 1..Len(calls[p]) :
        /\ calls[p][i] = [site |-> s, ok |-> TRUE]
        /\ \A j \in 1..i : calls[p][j].site /= "action"

\* C37: when main is at its action request, every launch request the
\* options call for has been sent and answered before it, the last of them
\* with success = true; and once a launch request has failed, by an error
\* of send_command or by success = false, main is at its end with status 1
\* and the action request was not sent.
C37_LaunchBeforeAction ==
    \A p \in Procs :
        LET f == flags[p]
            launches == {"launch_auto", "launch_cdp", "launch_provider", "launch_local"}
        IN  caller[p] = "main" =>
              /\ site[p] = "action" /\ pc[p] \in {"send", "sent"} =>
                    /\ f.auto_connect => LaunchedBefore(p, "launch_auto")
                    /\ f.cdp /= "none" => LaunchedBefore(p, "launch_cdp")
                    /\ f.provider => LaunchedBefore(p, "launch_provider")
                    /\ f.local /\ f.cdp = "none" /\ ~f.provider =>
                          LaunchedBefore(p, "launch_local")
                    /\ pc[p] = "send" /\ tries[p] = 0 /\ calls[p] /= <<>> =>
                          sendRet[p].ok /\ sendRet[p].resp.success
              /\ site[p] \in launches /\ pc[p] = "sent" =>
                    \A i \in 1..Len(calls[p]) : calls[p][i].site /= "action"
              /\ site[p] \in launches /\ pc[p] = "exit" =>
                    /\ exitCode[p] = 1
                    /\ ~sendRet[p].ok \/ ~sendRet[p].resp.success
                    /\ \A i \in 1..Len(calls[p]) : calls[p][i].site /= "action"

\* --auto-connect with --headed: both launch requests were answered with
\* success, in their order, and the action request is being sent.
C37_ActionAfterTwoLaunches ==
    \E p \in Procs :
        /\ pc[p] = "send" /\ site[p] = "action" /\ tries[p] = 1
        /\ calls[p] = << [site |-> "launch_auto", ok |-> TRUE],
                         [site |-> "launch_local", ok |-> TRUE] >>
        /\ sendRet[p].resp.success

\* The user's answer, as typed, is y or yes in any case, with blanks around.
SaidYes(in) == Trim(in.line) \in {"y", "Y", "yes", "Yes", "YES"}

\* C38: with --confirm-interactive, main does not end on a response to its
\* action request that asks for confirmation: it sends one follow-up and
\* no more, confirm when stdin is a terminal and the line read from it is y
\* or yes, deny in every other case; the follow-up carries the
\* confirmation id of that response; after a deny the status is not 0; and
\* the action request was sent once.
C38_OneFollowUp ==
    \A p \in Procs :
        LET followed == site[p] \in {"confirm", "deny"}
            approved == stdin[p].tty /\ stdin[p].read_ok /\ SaidYes(stdin[p])
        IN  caller[p] = "main" /\ flags[p].confirm_interactive =>
              /\ pc[p] = "exit" /\ site[p] = "action" /\ sendRet[p].ok =>
                    ~sendRet[p].resp.confirm
              /\ followed =>
                    /\ site[p] = (IF approved THEN "confirm" ELSE "deny")
                    /\ calls[p][1] = [site |-> "action", ok |-> TRUE]
                    /\ \A i \in 2..Len(calls[p]) : i = 2 /\ calls[p][i].site = site[p]
              /\ followed /\ pc[p] = "send" =>
                    /\ Len(calls[p]) = 1
                    /\ sendRet[p].resp.confirm /\ sendRet[p].resp.cid = "c1"
                    /\ lastTry[p].delivered =>
                          Contains(wire[p].bytes,
                                   "\"action\":\"" \o site[p]
                                   \o "\",\"confirmationId\":\"c1\"")
              /\ site[p] = "deny" /\ pc[p] = "exit" => exitCode[p] /= 0

\* Asked on a terminal, the user typed " Yes": the confirm request was
\* sent with the confirmation id c1 and answered, and main ended with two
\* calls made, the action and the confirm.
C38_ConfirmedOnTerminal ==
    \E p \in Procs :
        /\ pc[p] = "exit" /\ site[p] = "confirm"
        /\ stdin[p] = [tty |-> TRUE, read_ok |-> TRUE, line |-> " Yes\n"]
        /\ calls[p] = << [site |-> "action", ok |-> TRUE],
                         [site |-> "confirm", ok |-> TRUE] >>
        /\ wire[p].bytes = "{\"action\":\"confirm\",\"confirmationId\":\"c1\",\"id\":\"r3\"}\n"
        /\ sendRet[p].resp.success /\ exitCode[p] = 0

\* C38, the denial: stdin is no terminal though it holds "y"; the deny
\* request was sent and answered, and main ended with status 1.
C38_DeniedWithoutTerminal ==
    \E p \in Procs :
        /\ pc[p] = "exit" /\ site[p] = "deny" /\ exitCode[p] = 1
        /\ ~stdin[p].tty /\ SaidYes(stdin[p])
        /\ calls[p] = << [site |-> "action", ok |-> TRUE],
                         [site |-> "deny", ok |-> TRUE] >>

\* C39: an invocation of main with the command session, install, or one of
\* the auth commands never calls ensure_daemon or send_command: it makes no
\* probe, removes and writes no file, spawns no worker, opens no connection
\* and writes no request, and goes from its start to its exit.
C39_LocalCommandsStayLocal ==
    \A p \in Procs :
        caller[p] = "main" /\ cmdKind[p] \in {"session", "install", "auth"} =>
            /\ pc[p] \in {"start", "exit"}
            /\ probe1[p] = "none" /\ probe2[p] = "none" /\ polls[p] = 0
            /\ edRet[p] = NoRet /\ log[p] = <<>>
            /\ wstate[WorkerOf(p)] = "none"
            /\ site[p] = "none" /\ tries[p] = 0 /\ calls[p] = <<>>
            /\ wire[p] = NoWire /\ sendRet[p] = NoSend

\* An auth command has ended with status 0 beside a worker that is
\* listening for the session: no probe was made and nothing was written to
\* the socket.
C39_AuthEndedBesideWorker ==
    \E p \in Procs :
        /\ caller[p] = "main" /\ cmdKind[p] = "auth"
        /\ pc[p] = "exit" /\ exitCode[p] = 0
        /\ wstate["w0"] = "listening" /\ sockFile = "w0" /\ pidFile = "w0"
        /\ probe1[p] = "none" /\ calls[p] = <<>> /\ wire[p] = NoWire

=============================================================================
